---- MODULE Spec2Model ----
(***************************************************************************)
(* A model of the Xero export scripts: the token lifecycle                 *)
(* (token_manager.py, pipeline.py, new_int.py), the paginated fetcher      *)
(* (new_int.make_paginated_api_call) and the tabular normalizer            *)
(* (new_int.normalize_data).                                               *)
(*                                                                         *)
(* A token (a Python dict loaded from / dumped to xero_token.json) is a    *)
(* function from the keys it carries to integers: token ids for            *)
(* access_token and refresh_token, seconds for the time fields.            *)
(***************************************************************************)
EXTENDS Integers, Sequences, FiniteSets, TLC

\* ------------------------------------------------------------------ bounds
\* Time runs from 0 to MaxTime in steps of Step seconds.
MaxTime == 1500
Step == 300
\* The token endpoint issues at most MaxIssued credentials in a behaviour.
MaxIssued == 3
\* Entries of the endpoints dict of pipeline.main and of the all_functions
\* lists of new_int.export_all_to_csv that a run goes through.
NumEndpoints == 2
NumFunctions == 2

\* A paginated fetch makes at most MaxTries iterations and the server holds
\* at most MaxPages full pages.
MaxTries == 4
MaxPages == 2

\* A document handed to normalize_data holds at most MaxItems items with at
\* most MaxLines nested lines each; the clock of the two calls runs from 0 to
\* MaxClock, TicksPerDay readings to a calendar day.
MaxItems == 2
MaxLines == 2
MaxClock == 1
TicksPerDay == 1
\* A column handed to _process_dates_in_df holds at most MaxRows cells.
MaxRows == 4
\* One fetch of pipeline.main returns at most MaxRecords records; one get_*
\* function of export_all_to_csv returns at most MaxResultTables tables.
MaxRecords == 2
MaxResultTables == 2
\* The daily export covers at most MaxDays days and is followed for at most
\* MaxDayCount iterations of its loop.
MaxDays == 3
MaxDayCount == 5
\* At import export_all_to_csv is followed for at most MaxImportRequests
\* requests and MaxImportFiles files.
MaxImportRequests == 4
MaxImportFiles == 2

\* --------------------------------------------------------- program constants
TOKEN_REFRESH_BUFFER == 300
DEFAULT_EXPIRES_IN == 1800
page_size == 100
EXPORT_REFRESH_BUFFER == 60
RATE_LIMIT_STATUS == 429
DEFAULT_RETRY_AFTER == 5
max_retries == 3
TOKEN_EXPIRY_BUFFER == 300

\* ------------------------------------------------------------------- state
VARIABLES
    now,           \* time.time()
    file,          \* xero_token.json: [state: absent | corrupt | json, tok]
    issued,        \* number of credentials the token endpoint has issued
    lastExchange,  \* access/refresh pair of the most recent successful exchange
    refreshFailed, \* a refresh was rejected since the last authorization
    ret,           \* outcome of the last get_valid_token call
    pc,            \* position of the running script
    mainToken,     \* pipeline.main: its local variable token
    idx,           \* entries of the resource loop already attempted
    requests,      \* resource requests sent to the API in this run
    tables,        \* tables written in this run
    credFailed     \* this run could not obtain a usable credential

\* new_int.make_paginated_api_call
VARIABLES
    page,          \* its local variable page
    all_items,     \* its local variable all_items
    ppc,           \* loop: in the while loop; returned; raised
    tries,         \* the iterations so far: [page, answer] each
    served,        \* the 200 answers so far: [try, page, n] each
    log,           \* the lines printed so far
    lastSleep      \* milliseconds slept in the last iteration

\* The three refresh routines, each applied to one stored credential and one
\* answer of the token endpoint
VARIABLES
    rOld,          \* the stored credential handed to the refresh
    rResp,         \* the answer of the token endpoint
    outTM,         \* result of token_manager.refresh_xero_oauth2_token
    outXE,         \* result of xero_export.refresh_token
    outXEC         \* result of the refresh branch of xero_export_clean.get_headers

\* new_int.normalize_data, called twice on one document
VARIABLES
    document,      \* the decoded API response, its argument data
    clock,         \* datetime.now()
    out1,          \* result of the first call
    out2,          \* result of the second call
    npc            \* calls made so far: start; once; twice

\* The token file on disk at the granularity of its writes, under process
\* termination (token_manager.store_token, get_valid_token, the loaders)
VARIABLES
    spc,           \* position of the running process: idle; refresh; open;
                   \* dump; killed
    pending,       \* the token being refreshed / stored
    loaded         \* outcome of the last load of the file

\* xero_export.py and xero_export_clean.py on the token file
VARIABLES
    xpc,           \* position of get_tenant_id: idle; headers (after line 142)
    tdata          \* get_tenant_id: its local variable token_data

\* new_int._process_dates_in_df applied to one column
VARIABLES
    frame,         \* the DataFrame handed to it
    dated,         \* the DataFrame it returns
    dpc            \* start; done

\* the resource loops of pipeline.main and new_int.export_all_to_csv
VARIABLES
    lpc,           \* idle; main (in the endpoints loop); export (in the
                   \* functions loop); main_done; export_done
    li,            \* entries of the loop gone through so far
    attempted,     \* the resources whose fetch was called, in call order
    failures,      \* exceptions the loop has caught and reported so far
    last           \* what the entry gone through last did

\* one table of pipeline.main sent to the store
VARIABLES
    fetched,       \* the records the fetch returned
    dest,          \* the rows of the destination table in the store
    upc            \* idle; start; stored; failed

\* prepare_data_for_supabase applied to one list of records
VARIABLES
    given,         \* the records handed to prepare_data_for_supabase
    prepared,      \* what it returns, or that it raised
    numpy_strict,  \* the installed numpy refuses the truth value of an empty array
    prpc           \* idle; start; done

\* pipeline.fetch_all_records in paginated mode
VARIABLES
    fpage,         \* its local variable page
    frecords,      \* its local variable records
    ffail,         \* the request that raised, if one did: its page and its exception
    fret,          \* the list it returned
    fpc            \* idle; loop; returned

\* xero_export.main exporting its resources
VARIABLES
    xdone,         \* the resources whose export was called, in call order
    xfailed,       \* the resources whose export raised
    xfiles,        \* the files written, in order
    xmpc           \* idle; export (main, lines 291-295); done; failed (the except of main)

\* xero_export_clean.export_all: the daily Profit and Loss loop
VARIABLES
    total_days,    \* (end_date - start_date).days + 1
    current_date,  \* the day the loop is at, counted from start_date = 1
    day_count,     \* its local variable day_count
    failed_days,   \* its local variable failed_days
    handled,       \* the day of each iteration so far, with the attempts its fetch took
    all_rows,      \* the days whose rows are in all_rows
    dlpc           \* idle; loop; done

\* one XeroClient and its calls of ensure_valid_token
VARIABLES
    cnow,          \* time.time()
    ctoken,        \* self.token of the XeroClient
    capi,          \* the access token its API clients were initialised with, 0 for none
    cfile,         \* the token in xero_token.json
    cissued,       \* access tokens issued so far
    cret,          \* what the last ensure_valid_token returned: none; true; false
    cpc            \* idle; ready (the client is constructed)

\* Interactive authorization (xero_export, xero_export_clean)
VARIABLES
    ascript,       \* which script runs authenticate()
    afile,         \* the credential file as authenticate() finds it
    areq,          \* the request the callback server received
    apc,           \* where the thread of authenticate() is
    auth_code,     \* httpd.auth_code, "" while the attribute is not set
    awfile,        \* what the handler has written to the connection
    shutdown_request, \* BaseServer.__shutdown_request
    is_shut_down   \* the event BaseServer.__is_shut_down

\* Import of new_int (export_financials, export_financials_only)
VARIABLES
    importer,      \* the script that imports new_int
    icred,         \* whether get_xero_oauth2_token has a credential to give
    ipc,           \* where the importing script is
    ip,            \* the next module-level call of new_int
    irequests,     \* API requests issued since the script started
    ifiles,        \* files written since the script started
    ierror         \* the exception the import raised, "" for none

tokVars == <<now, file, issued, lastExchange, refreshFailed, ret>>
runVars == <<pc, mainToken, idx, requests, tables, credFailed>>
pageVars == <<page, all_items, ppc, tries, served, log, lastSleep>>
refVars == <<rOld, rResp, outTM, outXE, outXEC>>
normVars == <<document, clock, out1, out2, npc>>
storeVars == <<spc, pending, loaded>>
expVars == <<xpc, tdata>>
dateVars == <<frame, dated, dpc>>
loopVars == <<lpc, li, attempted, failures, last>>
upsertVars == <<fetched, dest, upc>>
prepVars == <<given, prepared, numpy_strict, prpc>>
fetchVars == <<fpage, frecords, ffail, fret, fpc>>
xmainVars == <<xdone, xfailed, xfiles, xmpc>>
dayVars == <<total_days, current_date, day_count, failed_days, handled, all_rows, dlpc>>
clientVars == <<cnow, ctoken, capi, cfile, cissued, cret, cpc>>
authVars == <<ascript, afile, areq, apc, auth_code, awfile, shutdown_request, is_shut_down>>
importVars == <<importer, icred, ipc, ip, irequests, ifiles, ierror>>
vars == <<tokVars, runVars, pageVars, refVars, normVars, storeVars, expVars,
          dateVars, loopVars, upsertVars, prepVars, fetchVars, xmainVars,
          dayVars, clientVars, authVars, importVars>>

\* What the token scripts, the paginated fetch, the refresh routines and the
\* normalizer leave alone.
TokenFrame ==
    UNCHANGED <<pageVars, refVars, normVars, storeVars, expVars, dateVars,
                loopVars,
                upsertVars,
                prepVars,
                fetchVars,
                xmainVars,
                dayVars,
                clientVars,
                authVars,
                importVars>>
PageFrame ==
    UNCHANGED <<tokVars, runVars, refVars, normVars, storeVars, expVars,
                dateVars,
                loopVars,
                upsertVars,
                prepVars,
                fetchVars,
                xmainVars,
                dayVars,
                clientVars,
                authVars,
                importVars>>
RefreshFrame ==
    UNCHANGED <<tokVars, runVars, pageVars, normVars, storeVars, expVars,
                dateVars,
                loopVars,
                upsertVars,
                prepVars,
                fetchVars,
                xmainVars,
                dayVars,
                clientVars,
                authVars,
                importVars>>
NormFrame ==
    UNCHANGED <<tokVars, runVars, pageVars, refVars, storeVars, expVars,
                dateVars,
                loopVars,
                upsertVars,
                prepVars,
                fetchVars,
                xmainVars,
                dayVars,
                clientVars,
                authVars,
                importVars>>
UpsertFrame ==
    UNCHANGED <<tokVars, runVars, pageVars, refVars, normVars, storeVars,
                expVars, dateVars, loopVars,
                prepVars,
                fetchVars,
                xmainVars,
                dayVars,
                clientVars,
                authVars,
                importVars>>
PrepareFrame ==
    UNCHANGED <<tokVars, runVars, pageVars, refVars, normVars, storeVars,
                expVars, dateVars, loopVars, upsertVars,
                fetchVars,
                xmainVars,
                dayVars,
                clientVars,
                authVars,
                importVars>>
FetchFrame ==
    UNCHANGED <<tokVars, runVars, pageVars, refVars, normVars, storeVars,
                expVars, dateVars, loopVars, upsertVars, prepVars,
                xmainVars,
                dayVars,
                clientVars,
                authVars,
                importVars>>
XMainFrame ==
    UNCHANGED <<tokVars, runVars, pageVars, refVars, normVars, storeVars,
                expVars, dateVars, loopVars, upsertVars, prepVars,
                fetchVars,
                dayVars,
                clientVars,
                authVars,
                importVars>>
DayFrame ==
    UNCHANGED <<tokVars, runVars, pageVars, refVars, normVars, storeVars,
                expVars, dateVars, loopVars, upsertVars, prepVars, fetchVars,
                xmainVars,
                clientVars,
                authVars,
                importVars>>
ClientFrame ==
    UNCHANGED <<tokVars, runVars, pageVars, refVars, normVars, storeVars,
                expVars, dateVars, loopVars, upsertVars, prepVars, fetchVars,
                xmainVars, dayVars,
                authVars,
                importVars>>
AuthFrame ==
    UNCHANGED <<tokVars, runVars, pageVars, refVars, normVars, storeVars,
                expVars, dateVars, loopVars, upsertVars, prepVars, fetchVars,
                xmainVars, dayVars, clientVars,
                importVars>>
ImportFrame ==
    UNCHANGED <<tokVars, runVars, pageVars, refVars, normVars, storeVars,
                expVars, dateVars, loopVars, upsertVars, prepVars, fetchVars,
                xmainVars, dayVars, clientVars, authVars>>
LoopFrame ==
    UNCHANGED <<tokVars, runVars, pageVars, refVars, normVars, storeVars,
                expVars, dateVars,
                upsertVars,
                prepVars,
                fetchVars,
                xmainVars,
                dayVars,
                clientVars,
                authVars,
                importVars>>
DateFrame ==
    UNCHANGED <<tokVars, runVars, pageVars, refVars, normVars, storeVars,
                expVars,
                loopVars,
                upsertVars,
                prepVars,
                fetchVars,
                xmainVars,
                dayVars,
                clientVars,
                authVars,
                importVars>>
\* What the steps of a token file write leave alone, beside the variables of
\* tokVars each of them names.
StoreFrame ==
    UNCHANGED <<lastExchange, refreshFailed, ret, runVars, pageVars, refVars,
                normVars, expVars, dateVars,
                loopVars,
                upsertVars,
                prepVars,
                fetchVars,
                xmainVars,
                dayVars,
                clientVars,
                authVars,
                importVars>>
\* What the routines of xero_export and xero_export_clean leave alone, beside
\* the variables of tokVars each of them names.
ExportFrame ==
    UNCHANGED <<refreshFailed, ret, runVars, pageVars, refVars, normVars,
                storeVars, dateVars,
                loopVars,
                upsertVars,
                prepVars,
                fetchVars,
                xmainVars,
                dayVars,
                clientVars,
                authVars,
                importVars>>

\* ------------------------------------------------------------ dictionaries
EmptyDict == [k \in {} |-> 0]

Has(d, k) == k \in DOMAIN d

\* d with d[k] = v set (Python: d[k] = v)
SetKey(d, k, v) == [x \in DOMAIN d \cup {k} |-> IF x = k THEN v ELSE d[x]]

\* d.get(k, default)
Get(d, k, default) == IF Has(d, k) THEN d[k] ELSE default

Absent == [state |-> "absent", tok |-> EmptyDict]
Corrupt == [state |-> "corrupt", tok |-> EmptyDict]
Json(t) == [state |-> "json", tok |-> t]
\* The file just opened with mode "w" (truncated), and with only a part of
\* the JSON text written.
Truncated == [state |-> "empty", tok |-> EmptyDict]
Partial == [state |-> "partial", tok |-> EmptyDict]

\* ----------------------------------------------------------- token endpoint
\* The expires_in values the token endpoint may answer with.
ExpiresChoices == {TOKEN_REFRESH_BUFFER, TOKEN_REFRESH_BUFFER + 2 * Step}

\* The bodies of a 200 answer that issues credential number n: the refresh
\* token and expires_in may each be omitted.
TokenBodies(n) ==
    LET full == {[access_token |-> n, refresh_token |-> n, expires_in |-> e] :
                    e \in ExpiresChoices}
        noRt == {[access_token |-> n, expires_in |-> e] : e \in ExpiresChoices}
        noExp == {[access_token |-> n, refresh_token |-> n]}
    IN  full \cup noRt \cup noExp

\* An answer of the token endpoint: an HTTP error / network failure, or 200.
Failure == [ok |-> FALSE, body |-> EmptyDict]
Responses(n) == {Failure} \cup {[ok |-> TRUE, body |-> b] : b \in TokenBodies(n)}

\* ------------------------------------------------------------ token_manager
store_token(token, t) == Json(SetKey(token, "stored_at", t))

\* is_token_expired with > for >=: the credential still counts as fresh at the
\* instant stored_at + expires_in - buffer.
is_token_expired_strict(token, t) ==
    IF DOMAIN token = {} \/ ~Has(token, "expires_in") \/ ~Has(token, "stored_at")
    THEN TRUE
    ELSE t > (token["stored_at"] + token["expires_in"]) - TOKEN_REFRESH_BUFFER

is_token_expired(token, t) ==
    IF DOMAIN token = {} \/ ~Has(token, "expires_in") \/ ~Has(token, "stored_at")
    THEN TRUE
    ELSE t >= (token["stored_at"] + token["expires_in"]) - TOKEN_REFRESH_BUFFER

\* The dict refresh_xero_oauth2_token returns for a 200 answer with `body`.
refresh_xero_oauth2_token(token, body, t) ==
    LET withRt == IF Has(body, "refresh_token") THEN body
                  ELSE SetKey(body, "refresh_token", token["refresh_token"])
        stamped == SetKey(withRt, "stored_at", t)
    IN  SetKey(stamped, "expires_at", t + Get(body, "expires_in", DEFAULT_EXPIRES_IN))

\* get_valid_token that falls back to the loaded credential when the refresh
\* is rejected, instead of returning None.
get_valid_token_stale(f, t, resp) ==
    IF f.state = "corrupt" THEN
        [kind |-> "raise", tok |-> EmptyDict, file |-> f,
         asked |-> FALSE, exchanged |-> FALSE]
    ELSE IF f.state = "absent" \/ DOMAIN f.tok = {} \/ ~Has(f.tok, "refresh_token") THEN
        [kind |-> "none", tok |-> EmptyDict, file |-> f,
         asked |-> FALSE, exchanged |-> FALSE]
    ELSE IF is_token_expired(f.tok, t) THEN
        IF resp.ok THEN
            LET new == refresh_xero_oauth2_token(f.tok, resp.body, t)
                saved == store_token(new, t)
            IN  [kind |-> "token", tok |-> saved.tok, file |-> saved,
                 asked |-> TRUE, exchanged |-> TRUE]
        ELSE
            [kind |-> "token", tok |-> f.tok, file |-> f,
             asked |-> TRUE, exchanged |-> FALSE]
    ELSE
        [kind |-> "token", tok |-> f.tok, file |-> f,
         asked |-> FALSE, exchanged |-> FALSE]

\* get_valid_token on file f at time t, the token endpoint answering resp if
\* asked: what it returns (kind raise: json.load failed on a corrupt file),
\* the file it leaves, and whether it asked / got a 200 from the endpoint.
get_valid_token(f, t, resp) ==
    IF f.state = "corrupt" THEN
        [kind |-> "raise", tok |-> EmptyDict, file |-> f,
         asked |-> FALSE, exchanged |-> FALSE]
    ELSE IF f.state = "absent" \/ DOMAIN f.tok = {} \/ ~Has(f.tok, "refresh_token") THEN
        [kind |-> "none", tok |-> EmptyDict, file |-> f,
         asked |-> FALSE, exchanged |-> FALSE]
    ELSE IF is_token_expired(f.tok, t) THEN
        IF resp.ok THEN
            LET new == refresh_xero_oauth2_token(f.tok, resp.body, t)
                saved == store_token(new, t)
            IN  [kind |-> "token", tok |-> saved.tok, file |-> saved,
                 asked |-> TRUE, exchanged |-> TRUE]
        ELSE
            [kind |-> "none", tok |-> EmptyDict, file |-> f,
             asked |-> TRUE, exchanged |-> FALSE]
    ELSE
        [kind |-> "token", tok |-> f.tok, file |-> f,
         asked |-> FALSE, exchanged |-> FALSE]

\* The access/refresh pair of a credential (0: no refresh_token key).
Pair(tok) == [access_token |-> tok["access_token"],
              refresh_token |-> Get(tok, "refresh_token", 0)]
NoPair == [access_token |-> 0, refresh_token |-> 0]

\* The record of a get_valid_token call: what it returned, whether it asked
\* the token endpoint and got a credential, whether an earlier refresh had
\* failed, the time of the return and the state of the file it loaded.
NoCall == [kind |-> "nocall", tok |-> EmptyDict, asked |-> FALSE,
           refreshed |-> FALSE, afterFailure |-> FALSE, at |-> 0,
           fileWas |-> "absent"]

\* get_token.py /check_token on the outcome r of get_xero_oauth2_token at
\* time t (lines 127-137): the status code and the JSON it answers with.
check_token(r, t) ==
    IF r.kind # "token"
    THEN [code |-> 401, status |-> "error", expires_in_seconds |-> 0]
    ELSE LET expires_in == Get(r.tok, "expires_at", 0) - t
         IN [code |-> 200,
             status |-> IF expires_in > 0 THEN "valid" ELSE "expired",
             expires_in_seconds |-> IF expires_in > 0 THEN expires_in ELSE 0]

\* new_int.get_headers on the outcome r of get_xero_oauth2_token: it raises
\* when the call raised, returned None or a dict without access_token.
get_headers_raises(r) == r.kind # "token" \/ ~Has(r.tok, "access_token")

\* ----------------------------------------------------- the refresh routines
\* The result of a refresh routine: the credential it returns, or an
\* exception (raise_for_status on an error answer, KeyError / ValueError on a
\* missing key); NotRun before the routine has run.
Returned(tok) == [kind |-> "token", tok |-> tok]
Raised == [kind |-> "raise", tok |-> EmptyDict]
NotRun == [kind |-> "notrun", tok |-> EmptyDict]

\* refresh_xero_oauth2_token that takes the answer as it is, without
\* carrying the old refresh_token over.
refresh_xero_oauth2_token_call_dropping(token, resp, t) ==
    IF ~Has(token, "refresh_token") THEN Raised
    ELSE IF ~resp.ok THEN Raised
    ELSE Returned(SetKey(SetKey(resp.body, "stored_at", t), "expires_at",
                         t + Get(resp.body, "expires_in", DEFAULT_EXPIRES_IN)))

\* token_manager.refresh_xero_oauth2_token as called: lines 68-98.
refresh_xero_oauth2_token_call(token, resp, t) ==
    IF ~Has(token, "refresh_token") THEN Raised
    ELSE IF ~resp.ok THEN Raised
    ELSE Returned(refresh_xero_oauth2_token(token, resp.body, t))

\* xero_export.refresh_token, lines 111-138: expires_at is computed from
\* the answer's expires_in (no default), then the refresh_token carried over;
\* the result is dumped to the token file and returned.
xero_export_refresh_token(token_data, resp, t) ==
    IF ~Has(token_data, "refresh_token") THEN Raised
    ELSE IF ~resp.ok THEN Raised
    ELSE IF ~Has(resp.body, "expires_in") THEN Raised
    ELSE LET stamped == SetKey(resp.body, "expires_at", t + resp.body["expires_in"])
         IN  Returned(IF Has(stamped, "refresh_token") THEN stamped
                      ELSE SetKey(stamped, "refresh_token", token_data["refresh_token"]))

\* xero_export_clean.get_headers, lines 89-117: the same steps inline.
xero_export_clean_refresh(token_data, resp, t) ==
    IF ~Has(token_data, "refresh_token") THEN Raised
    ELSE IF ~resp.ok THEN Raised
    ELSE IF ~Has(resp.body, "expires_in") THEN Raised
    ELSE LET stamped == SetKey(resp.body, "expires_at", t + resp.body["expires_in"])
         IN  Returned(IF Has(stamped, "refresh_token") THEN stamped
                      ELSE SetKey(stamped, "refresh_token", token_data["refresh_token"]))

\* The stored credentials a refresh is handed: as the authorization or an
\* earlier refresh left them, with or without a refresh_token, with a tenant
\* id or not.
StoredCredentials ==
    {[access_token |-> 1, refresh_token |-> r, expires_in |-> e, stored_at |-> 0] :
        r \in {1, 2}, e \in ExpiresChoices}
    \cup {[access_token |-> 1, refresh_token |-> r, expires_in |-> e, expires_at |-> e,
           tenant_id |-> 1] : r \in {1, 2}, e \in ExpiresChoices}
    \cup {[access_token |-> 1, expires_in |-> e, stored_at |-> 0] : e \in ExpiresChoices}

\* make_paginated_api_call as it is entered, lines 248-250.
PageEntry ==
    /\ page = 1
    /\ all_items = <<>>
    /\ ppc = "loop"
    /\ tries = <<>>
    /\ served = <<>>
    /\ log = <<>>
    /\ lastSleep = 0

\* No load made, no write in progress
NotLoaded == [by |-> "nobody", kind |-> "notrun", fileWas |-> "absent"]
StoreIdle ==
    /\ spc = "idle"
    /\ pending = EmptyDict
    /\ loaded = NotLoaded

\* No table sent to the store
UpsertIdle ==
    /\ fetched = <<>>
    /\ dest = <<>>
    /\ upc = "idle"

\* prepare_data_for_supabase not called
PrepareIdle ==
    /\ given = <<>>
    /\ prepared = [raised |-> FALSE, records |-> <<>>]
    /\ numpy_strict = FALSE
    /\ prpc = "idle"

\* fetch_all_records not called
NoFailure == [page |-> 0, exception |-> "none"]
FetchIdle ==
    /\ fpage = 1
    /\ frecords = <<>>
    /\ ffail = NoFailure
    /\ fret = <<>>
    /\ fpc = "idle"

\* xero_export.main not running
XMainIdle ==
    /\ xdone = <<>>
    /\ xfailed = {}
    /\ xfiles = <<>>
    /\ xmpc = "idle"

\* The daily loop not entered
DayIdle ==
    /\ total_days = 0
    /\ current_date = 1
    /\ day_count = 0
    /\ failed_days = 0
    /\ handled = <<>>
    /\ all_rows = 0
    /\ dlpc = "idle"

\* No XeroClient constructed
NoClientToken == [has |-> FALSE, access |-> 0, expires_at |-> 0]
ClientIdle ==
    /\ cnow = 0
    /\ ctoken = NoClientToken
    /\ capi = 0
    /\ cfile = NoClientToken
    /\ cissued = 0
    /\ cret = "none"
    /\ cpc = "idle"

\* A callback request: its method and the query parameters of its path
CallbackRequest(method, query) == [method |-> method, query |-> query]
NoRequest == CallbackRequest("", {})

\* No authorization started
AuthIdle ==
    /\ ascript = "xero_export"
    /\ afile = "absent"
    /\ areq = NoRequest
    /\ apc = "idle"
    /\ auth_code = ""
    /\ awfile = <<>>
    /\ shutdown_request = FALSE
    /\ is_shut_down = FALSE

\* No import started
ImportIdle ==
    /\ importer = "export_financials"
    /\ icred = FALSE
    /\ ipc = "idle"
    /\ ip = 1
    /\ irequests = 0
    /\ ifiles = 0
    /\ ierror = ""

\* No resource loop entered
NoEntry == [name |-> "", kind |-> "none", pk |-> "", cols |-> <<>>,
            rows |-> 0, created |-> FALSE, upserted |-> 0,
            reported |-> FALSE]
LoopIdle ==
    /\ lpc = "idle"
    /\ li = 0
    /\ attempted = <<>>
    /\ failures = 0
    /\ last = NoEntry

\* _process_dates_in_df not called
DateIdle ==
    /\ frame = <<>>
    /\ dated = <<>>
    /\ dpc = "idle"

\* get_tenant_id not running
ExportIdle ==
    /\ xpc = "idle"
    /\ tdata = EmptyDict

\* normalize_data not called
NormIdle ==
    /\ document = <<>>
    /\ clock = 0
    /\ out1 = <<>>
    /\ out2 = <<>>
    /\ npc = "idle"

RefreshIdle ==
    /\ rOld = EmptyDict
    /\ rResp = Failure
    /\ outTM = NotRun
    /\ outXE = NotRun
    /\ outXEC = NotRun

TokenIdle ==
    /\ file = Absent
    /\ issued = 0
    /\ lastExchange = NoPair
    /\ refreshFailed = FALSE
    /\ ret = NoCall
    /\ pc = "idle"
    /\ mainToken = EmptyDict
    /\ idx = 0
    /\ requests = 0
    /\ tables = 0
    /\ credFailed = FALSE

InitRefresh ==
    /\ now \in {0, Step}
    /\ TokenIdle
    /\ PageEntry
    /\ NormIdle
    /\ StoreIdle
    /\ ExportIdle
    /\ DateIdle
    /\ LoopIdle
    /\ rOld \in StoredCredentials
    /\ rResp \in Responses(MaxIssued)
    /\ outTM = NotRun
    /\ outXE = NotRun
    /\ outXEC = NotRun
    /\ UpsertIdle
    /\ PrepareIdle
    /\ FetchIdle
    /\ XMainIdle
    /\ DayIdle
    /\ ClientIdle
    /\ AuthIdle
    /\ ImportIdle

ApplyTokenManager ==
    /\ RefreshFrame
    /\ outTM = NotRun
    /\ outTM' = refresh_xero_oauth2_token_call(rOld, rResp, now)
    /\ UNCHANGED <<rOld, rResp, outXE, outXEC>>

ApplyXeroExport ==
    /\ RefreshFrame
    /\ outXE = NotRun
    /\ outXE' = xero_export_refresh_token(rOld, rResp, now)
    /\ UNCHANGED <<rOld, rResp, outTM, outXEC>>

ApplyXeroExportClean ==
    /\ RefreshFrame
    /\ outXEC = NotRun
    /\ outXEC' = xero_export_clean_refresh(rOld, rResp, now)
    /\ UNCHANGED <<rOld, rResp, outTM, outXE>>

NextRefresh ==
    \/ ApplyTokenManager
    \/ ApplyXeroExport
    \/ ApplyXeroExportClean

SpecRefresh == InitRefresh /\ [][NextRefresh]_vars

\* ------------------------------------------- new_int.make_paginated_api_call
\* The items of the answer to the i-th iteration: k items, told apart by i.
Items(i, k) == [j \in 1..k |-> <<i, j>>]

\* The body formats of a 200 answer (lines 277-283): a dict with key_name, a
\* bare list, a dict with "items", a dict with none of these.
Formats == {"keyed", "list", "items", "bare_dict"}
extract_items(fmt, k) == IF fmt = "bare_dict" THEN 0 ELSE k

\* What an iteration can end in other than a decoded 200 answer: an
\* exception, with its class and the response it carries.
\*   HTTPError from raise_for_status carries the response;
\*   ConnectionError, Timeout and the JSONDecodeError of response.json()
\*   are RequestExceptions whose response is None;
\*   get_headers raises a plain Exception, as does data.get on a scalar body.
HttpError(status) == [cls |-> "RequestException", hasResponse |-> TRUE, status |-> status]
NoResponse == [cls |-> "RequestException", hasResponse |-> FALSE, status |-> 0]
Plain == [cls |-> "Exception", hasResponse |-> FALSE, status |-> 0]
Exceptions == {HttpError(RATE_LIMIT_STATUS), HttpError(404), HttpError(500),
               NoResponse, Plain}

\* The except clauses, lines 302-322: retry the page, leave the loop, or
\* raise (e.response.status_code with e.response None, line 310, raises
\* AttributeError inside the handler, which nothing catches).
handler(e) ==
    IF e.cls = "RequestException"
    THEN IF ~e.hasResponse THEN "raise"
         ELSE IF e.status = RATE_LIMIT_STATUS THEN "retry" ELSE "break"
    ELSE "break"

\* Line 293: the page just fetched was the last one.
is_last_page_inclusive(n) == n <= page_size
is_last_page(n) == n < page_size

\* The page requested after a rate-limited one (line 314: continue).
page_after_retry_next(p) == p + 1
page_after_retry(p) == p

\* The lines an iteration prints.
printed(p, what) == <<what, p>>

InitPage ==
    /\ now = 0
    /\ TokenIdle
    /\ RefreshIdle
    /\ NormIdle
    /\ StoreIdle
    /\ ExportIdle
    /\ DateIdle
    /\ LoopIdle
    /\ PageEntry
    /\ UpsertIdle
    /\ PrepareIdle
    /\ FetchIdle
    /\ XMainIdle
    /\ DayIdle
    /\ ClientIdle
    /\ AuthIdle
    /\ ImportIdle

\* One iteration whose request is answered 200 with a decodable body of k
\* items in format fmt (lines 261-300).
PageAnswered ==
    /\ PageFrame
    /\ ppc = "loop"
    /\ Len(tries) < MaxTries
    /\ \E fmt \in Formats, k \in {0, 1, page_size - 1, page_size, page_size + 1} :
          LET n == extract_items(fmt, k) IN
          /\ n >= page_size => page <= MaxPages
          /\ tries' = Append(tries, [page |-> page, answer |-> "200"])
          /\ served' = Append(served, [try |-> Len(tries) + 1, page |-> page, n |-> n])
          /\ IF n = 0
             THEN /\ all_items' = all_items
                  /\ page' = page
                  /\ ppc' = "returned"
                  /\ lastSleep' = 0
                  /\ log' = log \o <<printed(page, "Fetching"), printed(page, "NoMore"),
                                     printed(page, "Total")>>
             ELSE /\ all_items' = all_items \o Items(Len(tries) + 1, n)
                  /\ IF is_last_page(n)
                     THEN /\ page' = page
                          /\ ppc' = "returned"
                          /\ lastSleep' = 0
                          /\ log' = log \o <<printed(page, "Fetching"),
                                             printed(page, "Fetched"),
                                             printed(page, "Total")>>
                     ELSE /\ page' = page + 1
                          /\ ppc' = "loop"
                          /\ lastSleep' = 500
                          /\ log' = log \o <<printed(page, "Fetching"),
                                             printed(page, "Fetched")>>

\* One iteration that ends in an exception (lines 302-322): get_headers,
\* requests.get, raise_for_status, response.json() or the item lookup raised.
\* retry_after is the Retry-After header of a 429 answer, or the default.
PageFailed ==
    /\ PageFrame
    /\ ppc = "loop"
    /\ Len(tries) < MaxTries
    /\ \E e \in Exceptions, retry_after \in {1, DEFAULT_RETRY_AFTER} :
          LET h == handler(e)
              answer == IF e.cls = "Exception" THEN "exception"
                        ELSE IF e.hasResponse THEN
                             (IF e.status = RATE_LIMIT_STATUS THEN "429" ELSE "http_error")
                        ELSE "no_response"
              first == <<printed(page, "Fetching"),
                         printed(page, IF e.cls = "RequestException" THEN "Error"
                                       ELSE "Unexpected")>>
          IN
          /\ tries' = Append(tries, [page |-> page, answer |-> answer])
          /\ UNCHANGED <<all_items, served>>
          /\ IF h = "retry"
             THEN /\ page' = page_after_retry(page)
                  /\ ppc' = "loop"
                  /\ lastSleep' = 1000 * retry_after
                  /\ log' = log \o first \o <<printed(page, "RateLimited")>>
             ELSE IF h = "break"
             THEN /\ page' = page
                  /\ ppc' = "returned"
                  /\ lastSleep' = 0
                  /\ log' = log \o first \o <<printed(page, "Total")>>
             ELSE /\ page' = page
                  /\ ppc' = "raised"
                  /\ lastSleep' = 0
                  /\ log' = log \o first

NextPage ==
    \/ PageAnswered
    \/ PageFailed

SpecPage == InitPage /\ [][NextPage]_vars

\* ------------------------------------------------------------- JSON values
\* A JSON value, a pandas cell: t is its kind; a number keeps its value in
\* n, a string its text in s, a list its elements in kids, an object its keys
\* (in insertion order) in keys and their values in kids.  "nan" is the
\* missing cell of pandas (NaN, NaT), "null" is None, "datetime" a
\* datetime whose clock reading is n.
Num(k) == [t |-> "num", s |-> "", n |-> k, keys |-> <<>>, kids |-> <<>>]
Str(x) == [t |-> "str", s |-> x, n |-> 0, keys |-> <<>>, kids |-> <<>>]
Null == [t |-> "null", s |-> "", n |-> 0, keys |-> <<>>, kids |-> <<>>]
NaN == [t |-> "nan", s |-> "", n |-> 0, keys |-> <<>>, kids |-> <<>>]
Datetime(k) == [t |-> "datetime", s |-> "", n |-> k, keys |-> <<>>, kids |-> <<>>]
List(xs) == [t |-> "list", s |-> "", n |-> 0, keys |-> <<>>, kids |-> xs]
Dict(ks, vs) == [t |-> "dict", s |-> "", n |-> 0, keys |-> ks, kids |-> vs]

\* key in d, d[key]
HasKey(d, key) == d.t = "dict" /\ \E i \in 1..Len(d.keys) : d.keys[i] = key
GetItem(d, key) == d.kids[CHOOSE i \in 1..Len(d.keys) : d.keys[i] = key]

\* bool(v) of Python
Truthy(v) ==
    CASE v.t = "null" -> FALSE
      [] v.t = "num" -> v.n # 0
      [] v.t = "str" -> v.s # ""
      [] v.t \in {"list", "dict"} -> Len(v.kids) > 0
      [] OTHER -> TRUE

\* pandas.isna(cell); isna_nan_only does not take None for missing
isna_nan_only(c) == c.t \in {"nan"}

isna(c) == c.t \in {"nan", "null"}
\* isinstance(cell, (dict, list))
IsComposite(c) == c.t \in {"dict", "list"}

RECURSIVE Join(_, _)
\* sep.join(parts)
Join(parts, sep) ==
    IF Len(parts) = 0 THEN ""
    ELSE IF Len(parts) = 1 THEN parts[1]
    ELSE parts[1] \o sep \o Join(Tail(parts), sep)

RECURSIVE json_dumps(_)
\* json.dumps(v): the JSON text of a value
json_dumps(v) ==
    CASE v.t = "num" -> ToString(v.n)
      [] v.t = "str" -> "\"" \o v.s \o "\""
      [] v.t = "null" -> "null"
      [] v.t = "nan" -> "NaN"
      [] v.t = "list" ->
            "[" \o Join([i \in 1..Len(v.kids) |-> json_dumps(v.kids[i])], ", ")
                \o "]"
      [] v.t = "dict" ->
            "{" \o Join([i \in 1..Len(v.kids) |->
                            "\"" \o v.keys[i] \o "\": "
                                 \o json_dumps(v.kids[i])], ", ")
                \o "}"
      [] OTHER -> "\"\""

\* ------------------------------------------------------------ pandas tables
\* A DataFrame: its column names in order and, for each row, one cell per
\* column.  A result of normalize_data: the table names in insertion order
\* and their tables.
Frame(cols, rows) == [cols |-> cols, rows |-> rows]
NoTables == [names |-> <<>>, tables |-> <<>>]

ColIndex(cols, c) == CHOOSE j \in 1..Len(cols) : cols[j] = c
HasCol(df, c) == \E j \in 1..Len(df.cols) : df.cols[j] = c
Column(df, c) ==
    [i \in 1..Len(df.rows) |-> df.rows[i][ColIndex(df.cols, c)]]

\* df[c] = cells: an existing column is overwritten in place, a new one is
\* appended
SetColumn(df, c, cells) ==
    IF HasCol(df, c)
    THEN Frame(df.cols,
               [i \in 1..Len(df.rows) |->
                   [j \in 1..Len(df.cols) |->
                       IF df.cols[j] = c THEN cells[i] ELSE df.rows[i][j]]])
    ELSE Frame(Append(df.cols, c),
               [i \in 1..Len(df.rows) |-> Append(df.rows[i], cells[i])])

\* df.drop(columns=[c])
DropColumn(df, c) ==
    LET keep == SelectSeq([j \in 1..Len(df.cols) |-> j],
                          LAMBDA j : df.cols[j] # c)
    IN Frame([j \in 1..Len(keep) |-> df.cols[keep[j]]],
             [i \in 1..Len(df.rows) |->
                 [j \in 1..Len(keep) |-> df.rows[i][keep[j]]]])

\* dtype == 'object': the column holds a string or a composite value
IsObject(cells) ==
    \E i \in 1..Len(cells) : cells[i].t \in {"str", "list", "dict"}

\* A flattened record: its [k, v] entries in order.
Entry(k, v) == [k |-> k, v |-> v]

RECURSIVE Concat(_)
Concat(seqs) ==
    IF Len(seqs) = 0 THEN <<>> ELSE Head(seqs) \o Concat(Tail(seqs))

RECURSIVE FlattenNested(_, _)
\* The entries of a nested object under the dotted prefix, depth first
FlattenNested(d, prefix) ==
    Concat([i \in 1..Len(d.keys) |->
        IF d.kids[i].t = "dict"
        THEN FlattenNested(d.kids[i], prefix \o "." \o d.keys[i])
        ELSE <<Entry(prefix \o "." \o d.keys[i], d.kids[i])>>])

\* One record of json_normalize: the entries that are not objects keep
\* their place, the flattened objects follow them
Flatten(d) ==
    LET idxs == [i \in 1..Len(d.keys) |-> i]
        plain == SelectSeq(idxs, LAMBDA i : d.kids[i].t # "dict")
        nested == SelectSeq(idxs, LAMBDA i : d.kids[i].t = "dict")
    IN [i \in 1..Len(plain) |-> Entry(d.keys[plain[i]], d.kids[plain[i]])]
       \o Concat([i \in 1..Len(nested) |->
                    FlattenNested(d.kids[nested[i]], d.keys[nested[i]])])

RECURSIVE UnionCols(_, _)
\* The keys of the records in order of first appearance
UnionCols(recs, seen) ==
    IF Len(recs) = 0 THEN seen
    ELSE LET new == SelectSeq([j \in 1..Len(Head(recs)) |-> Head(recs)[j].k],
                       LAMBDA k : ~ \E j \in 1..Len(seen) : seen[j] = k)
         IN UnionCols(Tail(recs), seen \o new)

\* record.get(c, NaN)
CellOf(rec, c) ==
    IF \E j \in 1..Len(rec) : rec[j].k = c
    THEN rec[CHOOSE j \in 1..Len(rec) : rec[j].k = c].v
    ELSE NaN

\* pd.DataFrame(records): a key a record lacks is a missing cell, and None
\* is a missing cell in a column of numbers
DataFrame(recs) ==
    LET cols == UnionCols(recs, <<>>)
        raw == [i \in 1..Len(recs) |->
                   [j \in 1..Len(cols) |-> CellOf(recs[i], cols[j])]]
        numeric(j) == /\ \E i \in 1..Len(recs) : raw[i][j].t = "num"
                      /\ ~ IsObject([i \in 1..Len(recs) |-> raw[i][j]])
    IN Frame(cols, [i \in 1..Len(recs) |->
                       [j \in 1..Len(cols) |->
                           IF numeric(j) /\ raw[i][j].t = "null"
                           THEN NaN ELSE raw[i][j]]])

\* pd.json_normalize(items) for items that are objects
json_normalize(items) ==
    DataFrame([i \in 1..Len(items) |->
                 IF items[i].t = "dict" THEN Flatten(items[i]) ELSE <<>>])

\* ----------------------------------------------- new_int._process_dates_in_df
\* The calendar date of a clock reading
DateOf(t) == "day" \o ToString(t \div TicksPerDay)

\* pd.to_datetime of one text followed by strftime('%Y-%m-%d'); "" when the
\* text does not parse.  The relative words resolve against the clock.
parse_date(x, t) ==
    CASE x \in {"2025-01-01", "2025-02-01"} -> x
      [] x = "2025-03-01T10:30:00" -> "2025-03-01"
      [] x \in {"today", "now"} -> DateOf(t)
      [] OTHER -> ""

\* pd.to_datetime(cell, errors='coerce') followed by strftime: a number is
\* an offset from the epoch, anything else that is no text does not parse
to_datetime(c, t) ==
    CASE c.t = "str" -> parse_date(c.s, t)
      [] c.t = "num" -> "1970-01-01"
      [] OTHER -> ""

\* The body of the loop of _process_dates_in_df for one column
process_column(df, c, t) ==
    LET cells == Column(df, c)
        temp == [i \in 1..Len(cells) |-> to_datetime(cells[i], t)]
        count == Cardinality({i \in 1..Len(cells) : temp[i] # ""})
    IN IF IsObject(cells) /\ 2 * count > Len(df.rows)
       THEN SetColumn(df, c, [i \in 1..Len(cells) |->
                                 IF temp[i] = "" THEN NaN ELSE Str(temp[i])])
       ELSE df

RECURSIVE process_from(_, _, _)
process_from(df, j, t) ==
    IF j > Len(df.cols) THEN df
    ELSE process_from(process_column(df, df.cols[j], t), j + 1, t)

_process_dates_in_df(df, t) == process_from(df, 1, t)

\* ------------------------------------------------------ new_int.normalize_data
Rule(col, parent_id, suffix) ==
    [col |-> col, parent_id |-> parent_id, suffix |-> suffix]

expand_rules ==
    << Rule("LineItems", "InvoiceID", "LineItems"),
       Rule("JournalLines", "JournalID", "JournalLines"),
       Rule("Payments", "InvoiceID", "Payments"),
       Rule("CreditNotes", "InvoiceID", "CreditNotes"),
       Rule("Addresses", "ContactID", "Addresses"),
       Rule("Phones", "ContactID", "Phones"),
       Rule("Rows", "ReportID", "Rows") >>

\* key_name.lower()
lower(x) ==
    CASE x = "Invoices" -> "invoices"
      [] x = "Contacts" -> "contacts"
      [] x = "Contact_ID" -> "contact_id"
      [] x = "Invoice_ID" -> "invoice_id"
      [] OTHER -> x

\* The list of items to process (lines 140-154)
find_items(data, key_name) ==
    IF data.t = "dict"
    THEN IF HasKey(data, key_name) THEN GetItem(data, key_name)
         ELSE IF HasKey(data, "Body") /\ HasKey(GetItem(data, "Body"), key_name)
         THEN GetItem(GetItem(data, "Body"), key_name)
         ELSE IF \E i \in 1..Len(data.kids) :
                    data.kids[i].t = "list" /\ Len(data.kids[i].kids) > 0
         THEN data.kids[CHOOSE i \in 1..Len(data.kids) :
                  /\ data.kids[i].t = "list" /\ Len(data.kids[i].kids) > 0
                  /\ \A h \in 1..(i - 1) :
                        ~ (data.kids[h].t = "list" /\ Len(data.kids[h].kids) > 0)]
         ELSE List(<<data>>)
    ELSE IF data.t = "list" THEN data
    ELSE List(<<>>)

\* main_df[[parent_id_field, col]].explode(col).dropna(): a [p, e] pair for
\* every element of every list, without the pairs where either is missing.
\* explode_dropna_first keeps the first element of each list only.
explode_dropna_first(df, parent_id_field, col) ==
    LET pids == Column(df, parent_id_field)
        cells == Column(df, col)
        exploded == Concat([i \in 1..Len(df.rows) |->
            IF cells[i].t = "list"
            THEN IF Len(cells[i].kids) = 0
                 THEN << [p |-> pids[i], e |-> NaN] >>
                 ELSE << [p |-> pids[i], e |-> cells[i].kids[1]] >>
            ELSE << [p |-> pids[i], e |-> cells[i]] >>])
    IN SelectSeq(exploded, LAMBDA x : ~ isna(x.p) /\ ~ isna(x.e))

explode_dropna(df, parent_id_field, col) ==
    LET pids == Column(df, parent_id_field)
        cells == Column(df, col)
        exploded == Concat([i \in 1..Len(df.rows) |->
            IF cells[i].t = "list"
            THEN IF Len(cells[i].kids) = 0
                 THEN << [p |-> pids[i], e |-> NaN] >>
                 ELSE [k \in 1..Len(cells[i].kids) |->
                          [p |-> pids[i], e |-> cells[i].kids[k]]]
            ELSE << [p |-> pids[i], e |-> cells[i]] >>])
    IN SelectSeq(exploded, LAMBDA x : ~ isna(x.p) /\ ~ isna(x.e))

\* result_dfs[name] = df
PutTable(out, name, df) ==
    IF \E k \in 1..Len(out.names) : out.names[k] = name
    THEN [out EXCEPT !.tables =
             [k \in 1..Len(out.names) |->
                 IF out.names[k] = name THEN df ELSE out.tables[k]]]
    ELSE [names |-> Append(out.names, name),
          tables |-> Append(out.tables, df)]

\* The child table of one expanded column (lines 197-203): the elements
\* normalized, the parent id added, the dates processed.
\* child_table_stamped also stamps the child table with LastUpdated.
child_table_stamped(pairs, parent_id_field, t) ==
    SetColumn(
        _process_dates_in_df(
            SetColumn(json_normalize([k \in 1..Len(pairs) |-> pairs[k].e]),
                      parent_id_field,
                      [k \in 1..Len(pairs) |-> pairs[k].p]),
            t),
        "LastUpdated", [k \in 1..Len(pairs) |-> Datetime(t)])

child_table(pairs, parent_id_field, t) ==
    _process_dates_in_df(
        SetColumn(json_normalize([k \in 1..Len(pairs) |-> pairs[k].e]),
                  parent_id_field,
                  [k \in 1..Len(pairs) |-> pairs[k].p]),
        t)

\* One iteration of the loop over expand_rules (lines 183-207) on the state
\* [main, out]: the root table and the child tables so far
expand_one(st, rule, key_name, t) ==
    IF ~ HasCol(st.main, rule.col) THEN st
    ELSE IF /\ ~ HasCol(st.main, rule.parent_id)
            /\ ~ HasCol(st.main, lower(key_name) \o "ID")
    THEN st
    ELSE LET parent_id_field ==
                 IF HasCol(st.main, rule.parent_id) THEN rule.parent_id
                 ELSE lower(key_name) \o "ID"
             pairs == explode_dropna(st.main, parent_id_field, rule.col)
         IN [main |-> DropColumn(st.main, rule.col),
             out |-> IF Len(pairs) > 0
                     THEN PutTable(st.out, key_name \o "_" \o rule.suffix,
                                   child_table(pairs, parent_id_field, t))
                     ELSE st.out]

RECURSIVE expand_from(_, _, _, _)
expand_from(st, r, key_name, t) ==
    IF r > Len(expand_rules) THEN st
    ELSE expand_from(expand_one(st, expand_rules[r], key_name, t),
                     r + 1, key_name, t)

\* The JSON fallback on the root table (lines 210-212); json_fallback_none
\* leaves the composite cells as they are.
json_fallback_none(df) == df

json_fallback(df) ==
    Frame(df.cols,
          [i \in 1..Len(df.rows) |->
              [j \in 1..Len(df.cols) |->
                  IF IsComposite(df.rows[i][j])
                  THEN Str(json_dumps(df.rows[i][j]))
                  ELSE df.rows[i][j]]])

\* normalize_data(data, key_name) called when datetime.now() reads t
normalize_data(data, key_name, t) ==
    IF ~ Truthy(data) THEN NoTables
    ELSE LET items == find_items(data, key_name)
             records == IF items.t = "list" THEN items.kids ELSE <<items>>
         IN IF ~ Truthy(items) THEN NoTables
            ELSE IF \E i \in 1..Len(records) : records[i].t # "dict"
            THEN NoTables
            ELSE LET main_df == json_normalize(records)
                 IN IF Len(main_df.cols) = 0 THEN NoTables
                    ELSE LET stamped ==
                                 _process_dates_in_df(
                                     SetColumn(main_df, "LastUpdated",
                                         [i \in 1..Len(main_df.rows) |->
                                             Datetime(t)]),
                                     t)
                             st == expand_from(
                                       [main |-> stamped, out |-> NoTables],
                                       1, key_name, t)
                         IN [names |-> <<key_name>> \o st.out.names,
                             tables |-> <<json_fallback(st.main)>>
                                            \o st.out.tables]

\* ---------------------------------------------------------------- documents
\* The documents handed to normalize_data: an invoice list of up to MaxItems
\* invoices in one of the Shapes.  The invoice at position pos carries its
\* id (its position; 1 for every invoice of the shape "dupid") or misses it
\* (no key; a null in the shape "nullid"), a Date, on odd positions a nested
\* Contact and a Tags list, and LineItems with up to MaxLines lines or none
\* (lines = -1).
key_name == "Invoices"

Shapes == {"keyed", "mixed", "relative", "nodates", "fallbackid", "otherid",
           "nullid", "dupid", "body", "otherlist", "list", "single"}

DateText(shape, pos) ==
    CASE shape = "mixed" ->
            IF pos % 2 = 1 THEN "not-a-date" ELSE "2025-01-01"
      [] shape = "relative" ->
            IF pos % 2 = 1 THEN "today" ELSE "2025-02-01"
      [] OTHER ->
            IF pos % 2 = 1 THEN "2025-01-01" ELSE "2025-03-01T10:30:00"

IdKey(shape) ==
    CASE shape = "fallbackid" -> "invoicesID"
      [] shape = "otherid" -> "Number"
      [] OTHER -> "InvoiceID"

Line(shape, j) ==
    IF j % 2 = 1
    THEN Dict(<<"Qty", "Due", "Tracking">>,
              <<Num(j), Str(DateText(shape, j)),
                List(<<Dict(<<"Name">>, <<Str("r")>>)>>)>>)
    ELSE Dict(<<"Qty", "Due">>, <<Num(j), Str(DateText(shape, j))>>)

ItemChoices == [id : {"own", "missing"}, lines : -1..MaxLines]

Invoice(shape, pos, ch) ==
    LET id == IF ch.id = "own"
              THEN <<Entry(IdKey(shape),
                           Num(IF shape = "dupid" THEN 1 ELSE pos))>>
              ELSE IF shape = "nullid" THEN <<Entry(IdKey(shape), Null)>>
              ELSE <<>>
        date == IF shape = "nodates" THEN <<>>
                ELSE <<Entry("Date", Str(DateText(shape, pos)))>>
        extra == IF pos % 2 = 1
                 THEN <<Entry("Contact",
                              Dict(<<"Name", "Ref">>,
                                   <<Str("c"),
                                     Dict(<<"Code">>, <<Str("k")>>)>>)),
                        Entry("Tags", List(<<Str("a"), Str("b")>>))>>
                 ELSE <<>>
        lines == IF ch.lines = -1 THEN <<>>
                 ELSE <<Entry("LineItems",
                              List([j \in 1..ch.lines |-> Line(shape, j)]))>>
        all == id \o date \o extra \o lines
    IN Dict([i \in 1..Len(all) |-> all[i].k], [i \in 1..Len(all) |-> all[i].v])

ItemLists == UNION {[1..n -> ItemChoices] : n \in 0..MaxItems}

Document(shape, chs) ==
    LET items == List([pos \in 1..Len(chs) |-> Invoice(shape, pos, chs[pos])])
    IN CASE shape = "body" ->
                Dict(<<"Status", "Body">>,
                     <<Str("OK"), Dict(<<key_name>>, <<items>>)>>)
         [] shape = "otherlist" ->
                Dict(<<"Status", "Results">>, <<Str("OK"), items>>)
         [] shape = "list" -> items
         [] shape = "single" ->
                IF Len(chs) = 0 THEN Dict(<<>>, <<>>) ELSE items.kids[1]
         [] OTHER -> Dict(<<key_name>>, <<items>>)

Documents == {Document(shape, chs) : shape \in Shapes, chs \in ItemLists}

\* ------------------------------------------------- two calls of normalize_data
InitNorm ==
    /\ now = 0
    /\ TokenIdle
    /\ PageEntry
    /\ RefreshIdle
    /\ StoreIdle
    /\ ExportIdle
    /\ DateIdle
    /\ LoopIdle
    /\ document \in Documents
    /\ clock = 0
    /\ out1 = NoTables
    /\ out2 = NoTables
    /\ npc = "start"
    /\ UpsertIdle
    /\ PrepareIdle
    /\ FetchIdle
    /\ XMainIdle
    /\ DayIdle
    /\ ClientIdle
    /\ AuthIdle
    /\ ImportIdle

\* get_bills: normalize_data(data, 'Invoices')
NormalizeFirst ==
    /\ NormFrame
    /\ npc = "start"
    /\ out1' = normalize_data(document, key_name, clock)
    /\ npc' = "once"
    /\ UNCHANGED <<document, clock, out2>>

\* Time passes between the two calls
ClockTick ==
    /\ NormFrame
    /\ npc = "once"
    /\ clock < MaxClock
    /\ clock' = clock + 1
    /\ UNCHANGED <<document, out1, out2, npc>>

NormalizeAgain ==
    /\ NormFrame
    /\ npc = "once"
    /\ out2' = normalize_data(document, key_name, clock)
    /\ npc' = "twice"
    /\ UNCHANGED <<document, clock, out1>>

NextNorm == NormalizeFirst \/ ClockTick \/ NormalizeAgain

SpecNorm == InitNorm /\ [][NextNorm]_vars

\* ------------------------------------------------- the token file on disk
\* json.load(f) fails on the file
Unparseable(f) == f.state \in {"corrupt", "empty", "partial"}

\* token_manager.load_token, lines 25-29: None for a missing file, the
\* decoded dict for a JSON file; json.load raises on anything else.
load_token(f) ==
    IF f.state = "absent" THEN [kind |-> "none", tok |-> EmptyDict]
    ELSE IF Unparseable(f) THEN [kind |-> "raise", tok |-> EmptyDict]
    ELSE [kind |-> "token", tok |-> f.tok]

\* XeroClient._load_token, lines 93-107: the except clause turns a failed
\* json.load into the return value None, as for a missing file.
XeroClient_load_token(f) ==
    IF f.state = "absent" THEN [kind |-> "none", tok |-> EmptyDict]
    ELSE IF Unparseable(f) THEN [kind |-> "none", tok |-> EmptyDict]
    ELSE [kind |-> "token", tok |-> f.tok]

InitStore ==
    /\ now = 0
    /\ file \in {Absent, Corrupt}
    /\ issued = 0
    /\ lastExchange = NoPair
    /\ refreshFailed = FALSE
    /\ ret = NoCall
    /\ pc = "idle"
    /\ mainToken = EmptyDict
    /\ idx = 0
    /\ requests = 0
    /\ tables = 0
    /\ credFailed = FALSE
    /\ PageEntry
    /\ RefreshIdle
    /\ NormIdle
    /\ StoreIdle
    /\ ExportIdle
    /\ DateIdle
    /\ LoopIdle
    /\ UpsertIdle
    /\ PrepareIdle
    /\ FetchIdle
    /\ XMainIdle
    /\ DayIdle
    /\ ClientIdle
    /\ AuthIdle
    /\ ImportIdle

\* Time passes.
StoreTick ==
    /\ StoreFrame
    /\ now + Step <= MaxTime
    /\ now' = now + Step
    /\ UNCHANGED <<file, issued, storeVars>>

\* A caller loads the file with token_manager.load_token.
LoadToken ==
    /\ StoreFrame
    /\ spc = "idle"
    /\ loaded' = [by |-> "token_manager", kind |-> load_token(file).kind,
                  fileWas |-> file.state]
    /\ UNCHANGED <<now, file, issued, spc, pending>>

\* XeroClient.__init__ loads the file with _load_token.
XeroClientLoadToken ==
    /\ StoreFrame
    /\ spc = "idle"
    /\ loaded' = [by |-> "xero_client",
                  kind |-> XeroClient_load_token(file).kind,
                  fileWas |-> file.state]
    /\ UNCHANGED <<now, file, issued, spc, pending>>

\* get_token.py /callback up to save_xero_oauth2_token, lines 85-97: the
\* code is exchanged for a token.
StoreCallback ==
    /\ StoreFrame
    /\ spc = "idle"
    /\ issued < MaxIssued
    /\ \E body \in TokenBodies(issued + 1) : pending' = body
    /\ issued' = issued + 1
    /\ spc' = "open"
    /\ UNCHANGED <<now, file, loaded>>

\* get_valid_token, lines 43-48: the load and the tests before the refresh.
\* It goes on to the refresh for a stored token that has expired and
\* returns (or raises out of load_token) otherwise.
GetValidTokenLoad ==
    /\ StoreFrame
    /\ spc = "idle"
    /\ LET r == load_token(file)
       IN /\ loaded' = [by |-> "get_valid_token", kind |-> r.kind,
                        fileWas |-> file.state]
          /\ IF /\ r.kind = "token"
                /\ DOMAIN r.tok # {}
                /\ Has(r.tok, "refresh_token")
                /\ is_token_expired(r.tok, now)
             THEN spc' = "refresh" /\ pending' = r.tok
             ELSE UNCHANGED <<spc, pending>>
    /\ UNCHANGED <<now, file, issued>>

\* get_valid_token, line 51: refresh_xero_oauth2_token; on an exception the
\* call returns None.
GetValidTokenRefresh ==
    /\ StoreFrame
    /\ spc = "refresh"
    /\ \E resp \in Responses(issued + 1) :
          IF resp.ok /\ issued < MaxIssued
          THEN /\ pending' = refresh_xero_oauth2_token(pending, resp.body, now)
               /\ issued' = issued + 1
               /\ spc' = "open"
          ELSE /\ ~ resp.ok
               /\ pending' = EmptyDict
               /\ spc' = "idle"
               /\ UNCHANGED issued
    /\ UNCHANGED <<now, file, loaded>>

\* store_token, lines 21-22: the timestamp is set and open(TOKEN_FILE, "w")
\* truncates the file.
StoreOpen ==
    /\ StoreFrame
    /\ spc = "open"
    /\ pending' = SetKey(pending, "stored_at", now)
    /\ file' = Truncated
    /\ spc' = "dump"
    /\ UNCHANGED <<now, issued, loaded>>

\* store_token, line 23: json.dump writes the text through the file's
\* buffer; a part of it reaches the disk before the rest.
StoreFlushPart ==
    /\ StoreFrame
    /\ spc = "dump"
    /\ file = Truncated
    /\ file' = Partial
    /\ UNCHANGED <<now, issued, storeVars>>

\* store_token, line 23 and the end of the with block: the whole text is
\* on disk and the file closed.
StoreClose ==
    /\ StoreFrame
    /\ spc = "dump"
    /\ file' = Json(pending)
    /\ spc' = "idle"
    /\ UNCHANGED <<now, issued, pending, loaded>>

\* The process is terminated wherever it is.
Kill ==
    /\ StoreFrame
    /\ spc \in {"refresh", "open", "dump"}
    /\ spc' = "killed"
    /\ UNCHANGED <<now, file, issued, pending, loaded>>

\* The next invocation starts.
Restart ==
    /\ StoreFrame
    /\ spc = "killed"
    /\ spc' = "idle"
    /\ pending' = EmptyDict
    /\ UNCHANGED <<now, file, issued, loaded>>

NextStore ==
    \/ StoreTick
    \/ LoadToken
    \/ XeroClientLoadToken
    \/ StoreCallback
    \/ GetValidTokenLoad
    \/ GetValidTokenRefresh
    \/ StoreOpen
    \/ StoreFlushPart
    \/ StoreClose
    \/ Kill
    \/ Restart

SpecStore == InitStore /\ [][NextStore]_vars

\* ------------------------------------- xero_export and xero_export_clean
\* The bodies of a 200 answer of the token endpoint to these scripts: they
\* carry expires_in, which lines 77 and 129 index.
ExportBodies(n) == {b \in TokenBodies(n) : Has(b, "expires_in")}
ExportResponses(n) ==
    {Failure} \cup {[ok |-> TRUE, body |-> b] : b \in ExportBodies(n)}

\* The access/refresh pair in force after the token endpoint answered a
\* refresh of credential old with body.
IssuedPair(old, body) ==
    [access_token |-> body["access_token"],
     refresh_token |-> Get(body, "refresh_token", old["refresh_token"])]

\* xero_export.get_token on file f at time t, the token endpoint answering
\* resp if asked (lines 98-109, with refresh_token, lines 111-138): what it
\* returns or that it raises, the file it leaves, whether the endpoint
\* issued a credential and the pair it issued.
xero_export_get_token(f, t, resp) ==
    IF f.state # "json" \/ ~ Has(f.tok, "expires_at")
    THEN [kind |-> "raise", tok |-> EmptyDict, file |-> f, exchanged |-> FALSE,
          pair |-> NoPair]
    ELSE IF t >= f.tok["expires_at"] - EXPORT_REFRESH_BUFFER
    THEN LET r == xero_export_refresh_token(f.tok, resp, t)
         IN IF r.kind = "token"
            THEN [kind |-> "token", tok |-> r.tok, file |-> Json(r.tok),
                  exchanged |-> TRUE, pair |-> IssuedPair(f.tok, resp.body)]
            ELSE [kind |-> "raise", tok |-> EmptyDict, file |-> f,
                  exchanged |-> Has(f.tok, "refresh_token") /\ resp.ok,
                  pair |-> IF Has(f.tok, "refresh_token") /\ resp.ok
                           THEN IssuedPair(f.tok, resp.body) ELSE NoPair]
    ELSE [kind |-> "token", tok |-> f.tok, file |-> f, exchanged |-> FALSE,
          pair |-> NoPair]

\* xero_export_clean.get_headers on file f at time t (lines 81-145): the
\* answer of the token endpoint if asked, and whether the connections
\* request succeeds if made.
xero_export_clean_get_headers(f, t, resp, connected) ==
    IF f.state # "json" \/ ~ Has(f.tok, "expires_at")
    THEN [kind |-> "raise", tok |-> EmptyDict, file |-> f, exchanged |-> FALSE,
          pair |-> NoPair]
    ELSE
      LET expired == t >= f.tok["expires_at"] - EXPORT_REFRESH_BUFFER
          r == IF expired THEN xero_export_clean_refresh(f.tok, resp, t)
               ELSE Returned(f.tok)
          asked == expired /\ Has(f.tok, "refresh_token") /\ resp.ok
          pair == IF asked THEN IssuedPair(f.tok, resp.body) ELSE NoPair
      IN IF r.kind # "token"
         THEN [kind |-> "raise", tok |-> EmptyDict, file |-> f,
               exchanged |-> asked, pair |-> pair]
         ELSE LET f1 == IF expired THEN Json(r.tok) ELSE f
              IN IF Has(r.tok, "tenant_id")
                 THEN [kind |-> "token", tok |-> r.tok, file |-> f1,
                       exchanged |-> asked, pair |-> pair]
                 ELSE IF ~ connected
                 THEN [kind |-> "raise", tok |-> EmptyDict, file |-> f1,
                       exchanged |-> asked, pair |-> pair]
                 ELSE LET withTenant == SetKey(r.tok, "tenant_id", 1)
                      IN [kind |-> "token", tok |-> withTenant,
                          file |-> Json(withTenant), exchanged |-> asked,
                          pair |-> pair]

\* xero_export.get_headers on file f at time t, the token endpoint answering
\* resp if asked (lines 89-96): the headers it returns, with the tenant id
\* 0 standing for the default '' of line 94, or that it raises.
xero_export_get_headers(f, t, resp) ==
    LET r == xero_export_get_token(f, t, resp)
    IN IF r.kind = "token"
       THEN [kind |-> "headers", bearer |-> r.tok["access_token"],
             tenant |-> Get(r.tok, "tenant_id", 0)]
       ELSE [kind |-> "raise", bearer |-> 0, tenant |-> 0]

InitExport ==
    /\ now = 0
    /\ file = Absent
    /\ issued = 0
    /\ lastExchange = NoPair
    /\ refreshFailed = FALSE
    /\ ret = NoCall
    /\ pc = "idle"
    /\ mainToken = EmptyDict
    /\ idx = 0
    /\ requests = 0
    /\ tables = 0
    /\ credFailed = FALSE
    /\ PageEntry
    /\ RefreshIdle
    /\ NormIdle
    /\ StoreIdle
    /\ ExportIdle
    /\ DateIdle
    /\ LoopIdle
    /\ UpsertIdle
    /\ PrepareIdle
    /\ FetchIdle
    /\ XMainIdle
    /\ DayIdle
    /\ ClientIdle
    /\ AuthIdle
    /\ ImportIdle

\* Time passes, between two calls or between two lines of get_tenant_id.
ExportTick ==
    /\ ExportFrame
    /\ now + Step <= MaxTime
    /\ now' = now + Step
    /\ UNCHANGED <<file, issued, lastExchange, expVars>>

\* What a call that asked the token endpoint leaves in file, issued and
\* lastExchange.
ExportCall(r) ==
    /\ r.exchanged => issued < MaxIssued
    /\ file' = r.file
    /\ issued' = IF r.exchanged THEN issued + 1 ELSE issued
    /\ lastExchange' = IF r.exchanged THEN r.pair ELSE lastExchange

\* get_token_from_code, lines 58-82 (authenticate, line 274).
get_token_from_code ==
    /\ ExportFrame
    /\ xpc = "idle"
    /\ issued < MaxIssued
    /\ \E body \in ExportBodies(issued + 1) :
          /\ file' = Json(SetKey(body, "expires_at", now + body["expires_in"]))
          /\ lastExchange' = Pair(body)
    /\ issued' = issued + 1
    /\ UNCHANGED <<now, expVars>>

\* get_headers, lines 89-96 (make_api_call): token_data = get_token().
get_headers ==
    /\ ExportFrame
    /\ xpc = "idle"
    /\ \E resp \in ExportResponses(issued + 1) :
          ExportCall(xero_export_get_token(file, now, resp))
    /\ UNCHANGED <<now, expVars>>

\* get_tenant_id, lines 142-145: token_data = get_token(); it returns the
\* tenant id the token carries, or goes on to fetch it.
get_tenant_id_token ==
    /\ ExportFrame
    /\ xpc = "idle"
    /\ \E resp \in ExportResponses(issued + 1) :
          LET r == xero_export_get_token(file, now, resp)
          IN /\ ExportCall(r)
             /\ IF r.kind = "token" /\ ~ Has(r.tok, "tenant_id")
                THEN xpc' = "headers" /\ tdata' = r.tok
                ELSE UNCHANGED expVars
    /\ UNCHANGED now

\* get_tenant_id, lines 149-166: headers = get_headers(), which calls
\* get_token() again; the connections request; token_data, as line 142 got
\* it, is given the tenant id and dumped to the file.
get_tenant_id_save ==
    /\ ExportFrame
    /\ xpc = "headers"
    /\ \E resp \in ExportResponses(issued + 1), connected \in BOOLEAN :
          LET r == xero_export_get_token(file, now, resp)
          IN /\ r.exchanged => issued < MaxIssued
             /\ issued' = IF r.exchanged THEN issued + 1 ELSE issued
             /\ lastExchange' = IF r.exchanged THEN r.pair ELSE lastExchange
             /\ file' = IF r.kind = "token" /\ connected
                        THEN Json(SetKey(tdata, "tenant_id", 1))
                        ELSE r.file
    /\ xpc' = "idle"
    /\ tdata' = EmptyDict
    /\ UNCHANGED now

\* xero_export_clean.get_headers on the same file.
clean_get_headers ==
    /\ ExportFrame
    /\ xpc = "idle"
    /\ \E resp \in ExportResponses(issued + 1), connected \in BOOLEAN :
          ExportCall(xero_export_clean_get_headers(file, now, resp, connected))
    /\ UNCHANGED <<now, expVars>>

NextExport ==
    \/ ExportTick
    \/ get_token_from_code
    \/ get_headers
    \/ get_tenant_id_token
    \/ get_tenant_id_save
    \/ clean_get_headers

SpecExport == InitExport /\ [][NextExport]_vars

\* ---------------------------------- _process_dates_in_df on one column
\* The cells of a text column: two texts that parse as dates, one that does
\* not, and the two missing values.
CellChoices ==
    {Str("2025-01-01"), Str("2025-03-01T10:30:00"), Str("not-a-date"),
     NaN, Null}

Columns == UNION {[1..n -> CellChoices] : n \in 1..MaxRows}

InitDates ==
    /\ now = 0
    /\ TokenIdle
    /\ PageEntry
    /\ RefreshIdle
    /\ NormIdle
    /\ StoreIdle
    /\ ExportIdle
    /\ LoopIdle
    /\ \E cells \in Columns :
          frame = Frame(<<"Date">>, [i \in 1..Len(cells) |-> <<cells[i]>>])
    /\ dated = <<>>
    /\ dpc = "start"
    /\ UpsertIdle
    /\ PrepareIdle
    /\ FetchIdle
    /\ XMainIdle
    /\ DayIdle
    /\ ClientIdle
    /\ AuthIdle
    /\ ImportIdle

\* normalize_data, lines 178 and 203: df = _process_dates_in_df(df)
ProcessDates ==
    /\ DateFrame
    /\ dpc = "start"
    /\ dated' = _process_dates_in_df(frame, clock)
    /\ dpc' = "done"
    /\ UNCHANGED frame

NextDates == ProcessDates

SpecDates == InitDates /\ [][NextDates]_vars

\* ------------------------------------------------ pipeline.main: store sink
\* main, lines 123-141: the endpoints in configuration order
Endpoint(name, pk, paginated) ==
    [name |-> name, pk |-> pk, paginated |-> paginated]
endpoints == <<
    Endpoint("contacts", "contact_id", TRUE),
    Endpoint("invoices", "invoice_id", TRUE),
    Endpoint("accounts", "account_id", FALSE),
    Endpoint("bank_transactions", "bank_transaction_id", TRUE),
    Endpoint("journals", "journal_id", FALSE),
    Endpoint("purchase_orders", "purchase_order_id", TRUE),
    Endpoint("manual_journals", "manual_journal_id", TRUE),
    Endpoint("payments", "payment_id", TRUE),
    Endpoint("bank_transfers", "bank_transfer_id", FALSE),
    Endpoint("organisations", "organisation_id", FALSE),
    Endpoint("items", "item_id", TRUE),
    Endpoint("currencies", "code", FALSE),
    Endpoint("employees", "employee_id", TRUE),
    Endpoint("pay_runs", "pay_run_id", TRUE),
    Endpoint("payslip", "payslip_id", FALSE),
    Endpoint("timesheets", "timesheet_id", TRUE) >>

\* The records one fetch returns: none, or up to MaxRecords records of one
\* shape. full: the primary key and a name; nopk: the name only; variant:
\* the primary key under another letter case; nested: a dictionary field
\* beside the primary key; nestedonly: the primary key only inside the
\* dictionary field; lines: a list field beside the primary key; mixed: the
\* first record full, the others without the primary key.
RecordShapes ==
    {"full", "nopk", "variant", "nested", "nestedonly", "lines", "mixed"}
Variant(pk) ==
    CASE pk = "contact_id" -> "Contact_ID"
      [] pk = "invoice_id" -> "Invoice_ID"
      [] OTHER -> pk
Record(e, shape, i) ==
    LET id == Str("id" \o ToString(i))
        name == Entry("name", Str("n" \o ToString(i)))
    IN CASE shape = "full" -> <<Entry(e.pk, id), name>>
         [] shape = "nopk" -> <<name>>
         [] shape = "variant" -> <<Entry(Variant(e.pk), id), name>>
         [] shape = "nested" ->
               <<Entry(e.pk, id), name,
                 Entry("contact", Dict(<<"status">>, <<Str("ACTIVE")>>))>>
         [] shape = "nestedonly" ->
               <<name, Entry("contact", Dict(<<e.pk>>, <<id>>))>>
         [] shape = "lines" ->
               <<Entry(e.pk, id), name,
                 Entry("line_items",
                       List(<<Dict(<<"quantity">>, <<Num(i)>>)>>))>>
         [] shape = "mixed" -> IF i = 1 THEN <<Entry(e.pk, id), name>>
                                        ELSE <<name>>
RecordLists(e) ==
    {<<>>} \cup
    {[i \in 1..n |-> Record(e, shape, i)] :
        n \in 1..MaxRecords,
        shape \in {sh \in RecordShapes : sh = "variant" => Variant(e.pk) # e.pk}}

\* What the store and the file system do to one entry: whether the table
\* exists already, and the one step that fails, if any.
Faults == {"none", "csv", "connect", "create", "rls", "upsert"}
Envs == [table_exists : BOOLEAN, fault : Faults, numpy_strict : BOOLEAN]

\* df[col].dropna().iloc[0], or None
Sample(cells) ==
    IF \E i \in 1..Len(cells) : ~ isna(cells[i])
    THEN cells[CHOOSE i \in 1..Len(cells) :
                  /\ ~ isna(cells[i])
                  /\ \A k \in 1..(i - 1) : isna(cells[k])]
    ELSE Null

\* expand_json_columns, lines 195-203: one column of dictionaries replaced
\* by the columns of its json_normalize, named col.sub_col
ExpandDict(df, col) ==
    LET expanded_col == json_normalize(Column(df, col))
        rest == DropColumn(df, col)
    IN Frame(rest.cols \o [j \in 1..Len(expanded_col.cols) |->
                              col \o "." \o expanded_col.cols[j]],
             [i \in 1..Len(df.rows) |-> rest.rows[i] \o expanded_col.rows[i]])

RECURSIVE ExpandDicts(_, _)
ExpandDicts(df, cols_to_expand) ==
    IF Len(cols_to_expand) = 0 THEN df
    ELSE ExpandDicts(ExpandDict(df, Head(cols_to_expand)),
                     Tail(cols_to_expand))

\* SupabaseConfig.expand_json_columns. A column whose first present cell is
\* a list is selected together with the column 'index_col' (line 174), which
\* a frame built from records with its default index does not have: the
\* selection raises KeyError.
expand_json_columns(df) ==
    LET cols_to_expand ==
            SelectSeq(df.cols, LAMBDA c :
                /\ IsObject(Column(df, c))
                /\ IsComposite(Sample(Column(df, c))))
        lists == SelectSeq(cols_to_expand,
                           LAMBDA c : Sample(Column(df, c)).t = "list")
    IN IF Len(lists) > 0
       THEN [raised |-> TRUE, df |-> df]
       ELSE [raised |-> FALSE, df |-> ExpandDicts(df, cols_to_expand)]

\* A check of the primary key that any column satisfies
pk_in_cols_any(df, primary_key) == df.cols

\* create_table_if_not_exist, line 100: the columns equal to the primary key
\* up to letter case
pk_in_cols(df, primary_key) ==
    SelectSeq(df.cols, LAMBDA c : lower(c) = lower(primary_key))

\* SupabaseConfig.create_table_if_not_exist, the client being initialized
\* (main, line 85): the exception it raises, if any, and whether the table
\* was created
create_table_if_not_exist(df, primary_key, env) ==
    IF ~ HasCol(df, primary_key) /\ Len(pk_in_cols(df, primary_key)) = 0
    THEN [raised |-> "ValueError", created |-> FALSE]
    ELSE IF env.fault = "connect"
    THEN [raised |-> "DatabaseError", created |-> FALSE]
    ELSE IF env.table_exists
    THEN [raised |-> "", created |-> FALSE]
    ELSE IF env.fault = "create"
    THEN [raised |-> "APIError", created |-> FALSE]
    ELSE IF env.fault = "rls"
    THEN [raised |-> "APIError", created |-> TRUE]
    ELSE [raised |-> "", created |-> TRUE]

\* bool(pd.isna(value)) at line 212: pd.isna of a list is the array of its
\* elements' answers, whose truth value is that of its one element, is
\* refused for two elements or more, and for no element is False or refused
\* with the numpy installed; pd.isna of a dict is False.
isna_truth(value, strict) ==
    IF value.t = "list"
    THEN IF Len(value.kids) = 0
         THEN [raised |-> strict, truth |-> FALSE]
         ELSE IF Len(value.kids) = 1
         THEN [raised |-> FALSE, truth |-> isna(value.kids[1])]
         ELSE [raised |-> TRUE, truth |-> FALSE]
    ELSE [raised |-> FALSE, truth |-> isna(value)]

\* prepare_data_for_supabase, lines 211-217: one value of one record
clean_value(value, strict) ==
    IF isna_truth(value, strict).truth THEN Null
    ELSE IF IsComposite(value) THEN Str(json_dumps(value))
    ELSE value

\* SupabaseConfig.prepare_data_for_supabase on a list of records, each a
\* sequence of [k, v] entries: the cleaned records, or that it raised
prepare_data_for_supabase(records, strict) ==
    [raised |-> \E i \in 1..Len(records) : \E j \in 1..Len(records[i]) :
                    isna_truth(records[i][j].v, strict).raised,
     records |-> [i \in 1..Len(records) |->
                    [j \in 1..Len(records[i]) |->
                        Entry(records[i][j].k,
                              clean_value(records[i][j].v, strict))]]]

\* df.to_dict('records'): each row as a record keyed by the columns
to_dict_records(df) ==
    [i \in 1..Len(df.rows) |->
        [j \in 1..Len(df.cols) |-> Entry(df.cols[j], df.rows[i][j])]]

\* The values of a list of records of equal keys, row by row
RowsOf(records) ==
    [i \in 1..Len(records) |->
        [j \in 1..Len(records[i]) |-> records[i][j].v]]

\* SupabaseConfig.upsert_data: the exception it raises, if any, and the
\* number of records sent to the table
upsert_data(records, env) ==
    IF Len(records) = 0 THEN [raised |-> "", upserted |-> 0]
    ELSE IF env.fault = "upsert"
    THEN [raised |-> "Exception", upserted |-> 0]
    ELSE [raised |-> "", upserted |-> Len(records)]

\* main, lines 148-190: one entry of the endpoints loop, the fetch having
\* returned records; the exception of any step is caught at line 187.
Entry_(e, kind, df, created, upserted, reported) ==
    [name |-> e.name, kind |-> kind, pk |-> e.pk, cols |-> df.cols,
     rows |-> Len(df.rows), created |-> created, upserted |-> upserted,
     reported |-> reported]

process_endpoint(e, records, env) ==
    LET df == DataFrame(records)
        x == expand_json_columns(df)
        c == create_table_if_not_exist(x.df, e.pk, env)
        p == prepare_data_for_supabase(to_dict_records(x.df),
                                       env.numpy_strict)
        u == upsert_data(p.records, env)
    IN IF Len(records) = 0
       THEN Entry_(e, "empty", df, FALSE, 0, FALSE)
       ELSE IF env.fault = "csv"
       THEN Entry_(e, "csv_failed", df, FALSE, 0, TRUE)
       ELSE IF x.raised
       THEN Entry_(e, "expand_failed", df, FALSE, 0, TRUE)
       ELSE IF c.raised = "ValueError"
       THEN Entry_(e, "no_primary_key", x.df, c.created, 0, TRUE)
       ELSE IF c.raised # ""
       THEN Entry_(e, "create_failed", x.df, c.created, 0, TRUE)
       ELSE IF p.raised
       THEN Entry_(e, "prepare_failed", x.df, c.created, 0, TRUE)
       ELSE IF u.raised # ""
       THEN Entry_(e, "upsert_failed", x.df, c.created, 0, TRUE)
       ELSE Entry_(e, "stored", x.df, c.created, u.upserted, FALSE)

\* What going through each endpoint can bring, over the records fetched and
\* the behaviour of the store
EndpointResults ==
    [k \in 1..Len(endpoints) |->
        {process_endpoint(endpoints[k], records, env) :
            records \in RecordLists(endpoints[k]), env \in Envs}]

InitLoop ==
    /\ now = 0
    /\ TokenIdle
    /\ PageEntry
    /\ RefreshIdle
    /\ NormIdle
    /\ StoreIdle
    /\ ExportIdle
    /\ DateIdle
    /\ LoopIdle
    /\ UpsertIdle
    /\ PrepareIdle
    /\ FetchIdle
    /\ XMainIdle
    /\ DayIdle
    /\ ClientIdle
    /\ AuthIdle
    /\ ImportIdle

\* main, lines 122-147: the run has its credential and its tenant and enters
\* the loop.
EndpointsLoopEnter ==
    /\ LoopFrame
    /\ lpc = "idle"
    /\ lpc' = "main"
    /\ UNCHANGED <<li, attempted, failures, last>>

\* main, lines 151-153: payslip is skipped before any request.
EndpointSkipped ==
    /\ LoopFrame
    /\ lpc = "main"
    /\ li < Len(endpoints)
    /\ endpoints[li + 1].name = "payslip"
    /\ li' = li + 1
    /\ last' = Entry_(endpoints[li + 1], "skipped", Frame(<<>>, <<>>),
                      FALSE, 0, FALSE)
    /\ UNCHANGED <<lpc, attempted, failures>>

\* The endpoints loop without its try: an exception ends the run.
EndpointIteration_abort ==
    /\ LoopFrame
    /\ lpc = "main"
    /\ li < Len(endpoints)
    /\ endpoints[li + 1].name # "payslip"
    /\ \E entry \in EndpointResults[li + 1] :
          /\ last' = entry
          /\ failures' = IF last'.reported THEN failures + 1 ELSE failures
          /\ lpc' = IF last'.reported THEN "main_done" ELSE lpc
    /\ attempted' = Append(attempted, endpoints[li + 1].name)
    /\ li' = li + 1

\* main, lines 155-190: any other endpoint is fetched (fetch_all_records
\* catches what the requests raise and returns the records it has) and,
\* when there are records, written to the file and to the store.
EndpointIteration ==
    /\ LoopFrame
    /\ lpc = "main"
    /\ li < Len(endpoints)
    /\ endpoints[li + 1].name # "payslip"
    /\ \E entry \in EndpointResults[li + 1] :
          /\ last' = entry
          /\ failures' = IF last'.reported THEN failures + 1 ELSE failures
    /\ attempted' = Append(attempted, endpoints[li + 1].name)
    /\ li' = li + 1
    /\ UNCHANGED lpc

\* main, line 190: the loop is over and main returns.
EndpointsLoopExit ==
    /\ LoopFrame
    /\ lpc = "main"
    /\ li = Len(endpoints)
    /\ lpc' = "main_done"
    /\ UNCHANGED <<li, attempted, failures, last>>

\* ------------------------------------------------- new_int.export_all_to_csv
\* export_all_to_csv, lines 967-1004: the (func, base_filename) entries in
\* the order the two loops go through them (func.__name__ of each)
all_functions == <<
    "export_super_invoice",
    "get_contacts", "get_invoices", "get_bills", "get_manual_journals",
    "get_journals", "get_payments", "get_receipts", "get_accounts",
    "get_items", "get_tax_rates", "get_currencies", "get_attachments",
    "get_budgets", "get_organisation",
    "get_profit_loss_report", "get_balance_sheet_report",
    "get_trial_balance_report", "get_aged_receivables_report",
    "get_aged_payables_report", "get_bank_summary_report",
    "get_executive_summary_report",
    "get_employees", "get_pay_runs", "get_timesheets",
    "get_payroll_settings",
    "get_assets", "get_files", "get_folders", "get_projects" >>

\* What func() brings: it raises; it returns None, a path (the str of
\* export_super_invoice), an empty dict, one DataFrame, or a dict of tables.
\* A table is None or empty, is saved, or fails to be written (save_to_csv
\* then returns None).
TableKinds == {"none", "saved", "unsaved"}
Results ==
    {[kind |-> k, tables |-> <<>>] : k \in {"raises", "none", "str", "empty"}}
    \cup {[kind |-> "frame", tables |-> <<t>>] : t \in TableKinds}
    \cup {[kind |-> "dict", tables |-> ts] :
            ts \in UNION {[1..n -> TableKinds] : n \in 1..MaxResultTables}}

\* lines 1037-1058: the number of files the entry appends to exported_files
Saved(result) ==
    Cardinality({i \in 1..Len(result.tables) : result.tables[i] = "saved"})

FunctionsLoopEnter ==
    /\ LoopFrame
    /\ lpc = "idle"
    /\ lpc' = "export"
    /\ UNCHANGED <<li, attempted, failures, last>>

\* export_all_to_csv, lines 1011-1064: one entry. A function already in
\* processed_data is skipped; otherwise it is called, and an exception of
\* the call or of the handling of its result is caught at line 1060.
FunctionIteration ==
    /\ LoopFrame
    /\ lpc = "export"
    /\ li < Len(all_functions)
    /\ LET func == all_functions[li + 1] IN
       IF \E k \in 1..Len(attempted) : attempted[k] = func
       THEN /\ last' = [NoEntry EXCEPT !.name = func, !.kind = "duplicate"]
            /\ UNCHANGED <<attempted, failures>>
       ELSE \E result \in Results :
               /\ attempted' = Append(attempted, func)
               /\ failures' = IF result.kind = "raises" THEN failures + 1
                              ELSE failures
               /\ last' = [NoEntry EXCEPT !.name = func,
                                          !.kind = result.kind,
                                          !.rows = Saved(result),
                                          !.reported = (result.kind = "raises")]
    /\ li' = li + 1
    /\ UNCHANGED lpc

\* lines 1066-1077: the summary is printed and exported_files returned.
FunctionsLoopExit ==
    /\ LoopFrame
    /\ lpc = "export"
    /\ li = Len(all_functions)
    /\ lpc' = "export_done"
    /\ UNCHANGED <<li, attempted, failures, last>>

NextLoop ==
    \/ EndpointsLoopEnter
    \/ EndpointSkipped
    \/ EndpointIteration
    \/ EndpointsLoopExit
    \/ FunctionsLoopEnter
    \/ FunctionIteration
    \/ FunctionsLoopExit

SpecLoop == InitLoop /\ [][NextLoop]_vars

\* Each loop runs on: a step that can be taken is taken.
SpecLoopFair == SpecLoop /\ WF_vars(NextLoop)

\* --------------------------------------- pipeline.main: one table upserted
\* The records of one fetch of contacts: each has its primary key, drawn
\* from RecordKeys, and a name; two records may carry the same key (a record
\* served on two pages).
RecordKeys == {"k1", "k2"}
RecordNames == {"a", "b"}
KeyedRecord(e, k, v) == <<Entry(e.pk, Str(k)), Entry("name", Str(v))>>
KeyedRecordLists(e) ==
    UNION {[1..n -> {KeyedRecord(e, k, v) : k \in RecordKeys,
                                            v \in RecordNames}] :
              n \in 0..MaxRecords}

\* The destination table before the run: at most one row for each key
StoredTables(e) ==
    {{<<Str(k), Str("old")>> : k \in ks} : ks \in SUBSET RecordKeys}

\* The store's answer to client.table(t).upsert(records, on_conflict=pk):
\* one INSERT ... ON CONFLICT (pk) DO UPDATE statement of the whole batch.
\* The statement is refused when two of its rows have the same key, and the
\* table is then left as it was; otherwise each row replaces the row of its
\* key or is inserted.
execute_upsert(table, cols, records, on_conflict) ==
    LET j == ColIndex(cols, on_conflict)
        twice == \E a, b \in 1..Len(records) :
                    a < b /\ records[a][j] = records[b][j]
    IN IF twice
       THEN [error |-> TRUE, table |-> table]
       ELSE [error |-> FALSE,
             table |-> {r \in table : \A i \in 1..Len(records) :
                                         r[j] # records[i][j]}
                       \cup {records[i] : i \in 1..Len(records)}]

\* SupabaseConfig.upsert_data on a reachable store: nothing is sent for an
\* empty list; an error of the answer is raised again (lines 230-245).
upsert_data_execute(table, cols, records, primary_key) ==
    IF Len(records) = 0 THEN [raised |-> FALSE, table |-> table]
    ELSE LET response == execute_upsert(table, cols, records, primary_key)
         IN [raised |-> response.error, table |-> response.table]

InitUpsert ==
    /\ now = 0
    /\ TokenIdle
    /\ PageEntry
    /\ RefreshIdle
    /\ NormIdle
    /\ StoreIdle
    /\ ExportIdle
    /\ DateIdle
    /\ LoopIdle
    /\ fetched \in KeyedRecordLists(endpoints[1])
    /\ dest \in StoredTables(endpoints[1])
    /\ upc = "start"
    /\ PrepareIdle
    /\ FetchIdle
    /\ XMainIdle
    /\ DayIdle
    /\ ClientIdle
    /\ AuthIdle
    /\ ImportIdle

\* main, lines 157-190 for the endpoint contacts, its table existing in a
\* reachable store: the records are framed, expanded, prepared and upserted;
\* an exception of the upsert is caught at line 187.
UpsertTable ==
    /\ UpsertFrame
    /\ upc = "start"
    /\ LET e == endpoints[1]
           x == expand_json_columns(DataFrame(fetched))
           p == prepare_data_for_supabase(to_dict_records(x.df), FALSE)
           u == upsert_data_execute(dest, x.df.cols, RowsOf(p.records), e.pk)
       IN IF Len(fetched) = 0 \/ x.raised \/ p.raised
          THEN /\ upc' = IF x.raised \/ p.raised THEN "failed" ELSE "stored"
               /\ UNCHANGED dest
          ELSE /\ dest' = u.table
               /\ upc' = IF u.raised THEN "failed" ELSE "stored"
    /\ UNCHANGED fetched

NextUpsert == UpsertTable

SpecUpsert == InitUpsert /\ [][NextUpsert]_vars

\* ------------------------------ SupabaseConfig.prepare_data_for_supabase
\* The values of a record handed to it: text, a number, None, NaN, a dict,
\* and lists of no, one and two elements
ValueChoices ==
    {Str("x"), Num(1), Null, NaN, Dict(<<"a">>, <<Num(1)>>), List(<<>>),
     List(<<Num(1)>>), List(<<Null>>), List(<<Num(1), Num(2)>>)}
GivenRecords ==
    UNION {[1..n -> {<<Entry("id", Str("k1")), Entry("field", v)>> :
                        v \in ValueChoices}] : n \in 0..MaxRecords}

InitPrepare ==
    /\ now = 0
    /\ TokenIdle
    /\ PageEntry
    /\ RefreshIdle
    /\ NormIdle
    /\ StoreIdle
    /\ ExportIdle
    /\ DateIdle
    /\ LoopIdle
    /\ UpsertIdle
    /\ given \in GivenRecords
    /\ numpy_strict \in BOOLEAN
    /\ prepared = [raised |-> FALSE, records |-> <<>>]
    /\ prpc = "start"
    /\ FetchIdle
    /\ XMainIdle
    /\ DayIdle
    /\ ClientIdle
    /\ AuthIdle
    /\ ImportIdle

\* records_to_upsert = prepare_data_for_supabase(records)
PrepareData ==
    /\ PrepareFrame
    /\ prpc = "start"
    /\ prepared' = prepare_data_for_supabase(given, numpy_strict)
    /\ prpc' = "done"
    /\ UNCHANGED <<given, numpy_strict>>

NextPrepare == PrepareData

SpecPrepare == InitPrepare /\ [][NextPrepare]_vars

\* ------------------------------------------- pipeline.fetch_all_records
\* What one request of a page brings: a result whose first list holds items
\* or is empty, a result without a list, or an exception:
\* AccountingBadRequestException, an exception whose text holds '404', any
\* other exception.
FetchExceptions == {"bad_request", "not_found", "other"}
PageItems == UNION {[1..n -> {"x", "y"}] : n \in 1..MaxItems}
FetchAnswers(p) ==
    {[kind |-> "raises", exception |-> x, items |-> <<>>] :
        x \in FetchExceptions}
    \cup {[kind |-> k, exception |-> "none", items |-> <<>>] :
            k \in {"empty", "nolist"}}
    \cup {[kind |-> "items", exception |-> "none", items |-> it] :
            it \in IF p <= MaxPages THEN PageItems ELSE {}}

InitFetch ==
    /\ now = 0
    /\ TokenIdle
    /\ PageEntry
    /\ RefreshIdle
    /\ NormIdle
    /\ StoreIdle
    /\ ExportIdle
    /\ DateIdle
    /\ LoopIdle
    /\ UpsertIdle
    /\ PrepareIdle
    /\ fpage = 1
    /\ frecords = <<>>
    /\ ffail = NoFailure
    /\ fret = <<>>
    /\ fpc = "loop"
    /\ XMainIdle
    /\ DayIdle
    /\ ClientIdle
    /\ AuthIdle
    /\ ImportIdle

\* fetch_all_records, lines 34-51: the page is answered and holds items; they
\* are added and the next page is asked for.
FetchPage ==
    /\ FetchFrame
    /\ fpc = "loop"
    /\ \E a \in FetchAnswers(fpage) :
          /\ a.kind = "items"
          /\ frecords' = frecords \o a.items
    /\ fpage' = fpage + 1
    /\ UNCHANGED <<ffail, fret, fpc>>

\* lines 49-50 and 80: no list in the answer, or an empty one; the loop ends
\* and records is returned.
FetchLastPage ==
    /\ FetchFrame
    /\ fpc = "loop"
    /\ \E a \in FetchAnswers(fpage) : a.kind \in {"empty", "nolist"}
    /\ fret' = frecords
    /\ fpc' = "returned"
    /\ UNCHANGED <<fpage, frecords, ffail>>

\* lines 54-62 and 80: the request raises. AccountingBadRequestException
\* ends the loop; so does any other exception, after the one whose text
\* holds '404' has made the function return [].
FetchRaised ==
    /\ FetchFrame
    /\ fpc = "loop"
    /\ \E a \in FetchAnswers(fpage) :
          /\ a.kind = "raises"
          /\ ffail' = [page |-> fpage, exception |-> a.exception]
          /\ fret' = IF a.exception = "not_found" THEN <<>> ELSE frecords
    /\ fpc' = "returned"
    /\ UNCHANGED <<fpage, frecords>>

NextFetch ==
    \/ FetchPage
    \/ FetchLastPage
    \/ FetchRaised

SpecFetch == InitFetch /\ [][NextFetch]_vars

\* --------------------------------------------------------- xero_export.main
\* main, lines 292-294: the resources exported by their own function, in
\* call order; export_all_reports, lines 208-215: the reports, by name
direct_exports == <<"contacts", "invoices", "bank_transactions">>
reports == <<"profit_and_loss", "balance_sheet", "aged_receivables",
             "aged_payables", "bank_summary", "executive_summary">>

InitXMain ==
    /\ now = 0
    /\ TokenIdle
    /\ PageEntry
    /\ RefreshIdle
    /\ NormIdle
    /\ StoreIdle
    /\ ExportIdle
    /\ DateIdle
    /\ LoopIdle
    /\ UpsertIdle
    /\ PrepareIdle
    /\ FetchIdle
    /\ xdone = <<>>
    /\ xfailed = {}
    /\ xfiles = <<>>
    /\ xmpc = "export"
    /\ DayIdle
    /\ ClientIdle
    /\ AuthIdle
    /\ ImportIdle

\* main, lines 292-294 with export_contacts, export_invoices and
\* export_bank_transactions: make_api_call raises for a failed request and
\* export_to_csv for a failed write; nothing catches the exception before
\* the except of main at line 300.
ExportDirect ==
    /\ XMainFrame
    /\ xmpc = "export"
    /\ Len(xdone) < Len(direct_exports)
    /\ LET resource == direct_exports[Len(xdone) + 1] IN
       /\ xdone' = Append(xdone, resource)
       /\ \E ok \in BOOLEAN :
             IF ok
             THEN /\ xfiles' = Append(xfiles, resource)
                  /\ UNCHANGED <<xfailed, xmpc>>
             ELSE /\ xfailed' = xfailed \cup {resource}
                  /\ xmpc' = "failed"
                  /\ UNCHANGED xfiles

\* export_all_reports, lines 218-225: one report; its exception is caught
\* and printed, and the loop goes on.
ExportReport ==
    /\ XMainFrame
    /\ xmpc = "export"
    /\ Len(xdone) >= Len(direct_exports)
    /\ Len(xdone) < Len(direct_exports) + Len(reports)
    /\ LET report_name == reports[Len(xdone) - Len(direct_exports) + 1] IN
       /\ xdone' = Append(xdone, report_name)
       /\ \E ok \in BOOLEAN :
             IF ok
             THEN /\ xfiles' = Append(xfiles, report_name)
                  /\ UNCHANGED xfailed
             ELSE /\ xfailed' = xfailed \cup {report_name}
                  /\ UNCHANGED xfiles
    /\ UNCHANGED xmpc

\* main, lines 297-298: every call has returned.
XMainCompleted ==
    /\ XMainFrame
    /\ xmpc = "export"
    /\ Len(xdone) = Len(direct_exports) + Len(reports)
    /\ xmpc' = "done"
    /\ UNCHANGED <<xdone, xfailed, xfiles>>

NextXMain ==
    \/ ExportDirect
    \/ ExportReport
    \/ XMainCompleted

SpecXMain == InitXMain /\ [][NextXMain]_vars

\* -------------------------- xero_export_clean.export_all: the daily loop
InitDays ==
    /\ now = 0
    /\ TokenIdle
    /\ PageEntry
    /\ RefreshIdle
    /\ NormIdle
    /\ StoreIdle
    /\ ExportIdle
    /\ DateIdle
    /\ LoopIdle
    /\ UpsertIdle
    /\ PrepareIdle
    /\ FetchIdle
    /\ XMainIdle
    /\ total_days \in 1..MaxDays
    /\ current_date = 1
    /\ day_count = 0
    /\ failed_days = 0
    /\ handled = <<>>
    /\ all_rows = 0
    /\ dlpc = "loop"
    /\ ClientIdle
    /\ AuthIdle
    /\ ImportIdle

\* export_all, lines 298-397: one iteration whose fetch succeeds at attempt
\* failed + 1 <= max_retries. The rows of the report are added, unless their
\* processing raises (caught at line 391); the loop moves to the next day.
DayFetched ==
    /\ DayFrame
    /\ dlpc = "loop"
    /\ current_date <= total_days
    /\ day_count < MaxDayCount
    /\ day_count' = day_count + 1
    /\ \E failed \in 0..(max_retries - 1), processed \in BOOLEAN :
          /\ handled' = Append(handled, [date |-> current_date,
                                         attempts |-> failed + 1])
          /\ all_rows' = IF processed THEN all_rows + 1 ELSE all_rows
    /\ current_date' = current_date + 1
    /\ UNCHANGED <<total_days, failed_days, dlpc>>

\* lines 298-342 and 399-400: one iteration whose fetch fails max_retries
\* times. The last failure counts the day as failed and is raised again, to
\* the except of line 399, which prints it; line 397 is not reached.
DayFailed ==
    /\ DayFrame
    /\ dlpc = "loop"
    /\ current_date <= total_days
    /\ day_count < MaxDayCount
    /\ day_count' = day_count + 1
    /\ failed_days' = failed_days + 1
    /\ handled' = Append(handled, [date |-> current_date,
                                   attempts |-> max_retries])
    /\ UNCHANGED <<total_days, current_date, all_rows, dlpc>>

\* line 298: current_date is past end_date, the loop is over.
DaysOver ==
    /\ DayFrame
    /\ dlpc = "loop"
    /\ current_date > total_days
    /\ dlpc' = "done"
    /\ UNCHANGED <<total_days, current_date, day_count, failed_days, handled,
                   all_rows>>

NextDays ==
    \/ DayFetched
    \/ DayFailed
    \/ DaysOver

SpecDays == InitDays /\ [][NextDays]_vars

\* ------------------------------------------ XeroClient.ensure_valid_token
ClientToken(access, expires_at) ==
    [has |-> TRUE, access |-> access, expires_at |-> expires_at]

\* XeroClient.is_token_valid at time t
XeroClient_is_token_valid(token, t) ==
    token.has /\ token.expires_at > t + TOKEN_EXPIRY_BUFFER

\* What the network does during one call: whether the token endpoint grants
\* a refresh, whether the connections request and the organisations
\* request are answered.
ClientEnvs == [refresh_ok : BOOLEAN, request_ok : BOOLEAN, orgs_ok : BOOLEAN]

\* XeroClient.refresh_token: the session sends the connections request with
\* the token it was given. It refreshes first, and hands the new token to
\* _save_token, only when that token has expired (expires_at < now); any
\* exception makes it return False. self.token is not assigned.
XeroClient_refresh_token(token, t, n, env) ==
    IF token.expires_at < t
    THEN IF env.refresh_ok
         THEN [ret |-> env.request_ok, refreshed |-> TRUE,
               saved |-> ClientToken(n, t + DEFAULT_EXPIRES_IN)]
         ELSE [ret |-> FALSE, refreshed |-> FALSE, saved |-> token]
    ELSE [ret |-> env.request_ok, refreshed |-> FALSE, saved |-> token]

\* XeroClient._init_apis with a token: the API clients are configured with
\* its access token and the organisations are asked for; the request is
\* refused for a token past its expiry, and then _init_apis raises.
XeroClient_init_apis(token, t, env) ==
    [api |-> token.access,
     raised |-> ~ (env.orgs_ok /\ t < token.expires_at)]

\* XeroClient.ensure_valid_token at time t, n the next access token the
\* endpoint would issue: what it returns, the API clients, the file.
ensure_valid_token(token, api, saved, t, n, env) ==
    LET init == XeroClient_init_apis(token, t, env)
        refresh == XeroClient_refresh_token(token, t, n, env)
        unchanged == [ret |-> FALSE, api |-> api, saved |-> saved,
                      refreshed |-> FALSE]
    IN IF ~ token.has THEN unchanged
       ELSE IF api = 0
       THEN [unchanged EXCEPT !.ret = ~ init.raised, !.api = init.api]
       ELSE IF XeroClient_is_token_valid(token, t)
       THEN [unchanged EXCEPT !.ret = TRUE]
       ELSE IF ~ refresh.ret
       THEN [unchanged EXCEPT !.saved = IF refresh.refreshed
                                        THEN refresh.saved ELSE saved,
                              !.refreshed = refresh.refreshed]
       ELSE [ret |-> ~ init.raised, api |-> init.api,
             saved |-> IF refresh.refreshed THEN refresh.saved ELSE saved,
             refreshed |-> refresh.refreshed]

\* XeroClient(): the token file is loaded and the API clients initialised.
\* Either the file holds a token expiring at one of the next steps, and the
\* constructor has returned, so _init_apis did not raise; or there is no
\* file, and no token and no API client.
InitClient ==
    /\ now = 0
    /\ TokenIdle
    /\ PageEntry
    /\ RefreshIdle
    /\ NormIdle
    /\ StoreIdle
    /\ ExportIdle
    /\ DateIdle
    /\ LoopIdle
    /\ UpsertIdle
    /\ PrepareIdle
    /\ FetchIdle
    /\ XMainIdle
    /\ DayIdle
    /\ cnow = 0
    /\ \/ /\ \E k \in 1..4 : ctoken = ClientToken(1, k * Step)
          /\ capi = 1
          /\ cissued = 1
       \/ /\ ctoken = NoClientToken
          /\ capi = 0
          /\ cissued = 0
    /\ cfile = ctoken
    /\ cret = "none"
    /\ cpc = "ready"
    /\ AuthIdle
    /\ ImportIdle

\* Time passes between two calls.
ClientTick ==
    /\ ClientFrame
    /\ cpc = "ready"
    /\ cnow + Step <= MaxTime
    /\ cnow' = cnow + Step
    /\ cret' = "none"
    /\ UNCHANGED <<ctoken, capi, cfile, cissued, cpc>>

\* One call of ensure_valid_token by the exporter.
EnsureValidToken ==
    /\ ClientFrame
    /\ cpc = "ready"
    /\ \E env \in ClientEnvs :
          LET r == ensure_valid_token(ctoken, capi, cfile, cnow, cissued + 1,
                                      env)
          IN /\ r.refreshed => cissued < MaxIssued
             /\ cret' = IF r.ret THEN "true" ELSE "false"
             /\ capi' = r.api
             /\ cfile' = r.saved
             /\ cissued' = IF r.refreshed THEN cissued + 1 ELSE cissued
    /\ UNCHANGED <<cnow, ctoken, cpc>>

NextClient ==
    \/ ClientTick
    \/ EnsureValidToken

SpecClient == InitClient /\ [][NextClient]_vars

\* ------------------------------------- interactive authorization callback
\* The requests a client may send to the callback port: the redirect of the
\* authorization server carries a code or an error, and any other client
\* may ask with another method.
AuthCodes == {"code1", "code2"}
CallbackQueries ==
    {{"code", "state"}, {"code"}, {"error"}, {}}
CallbackRequests ==
    {CallbackRequest(m, q) : m \in {"GET", "HEAD"}, q \in CallbackQueries}

\* BaseServer.shutdown as the standard library defines it: the request flag
\* is set and the caller waits for the event that only serve_forever sets.
\* The result says whether the caller gets past the wait.
BaseServer_shutdown(event) == [shutdown_request |-> TRUE, returns |-> event]

InitAuth ==
    /\ now = 0
    /\ TokenIdle
    /\ PageEntry
    /\ RefreshIdle
    /\ NormIdle
    /\ StoreIdle
    /\ ExportIdle
    /\ DateIdle
    /\ LoopIdle
    /\ UpsertIdle
    /\ PrepareIdle
    /\ FetchIdle
    /\ XMainIdle
    /\ DayIdle
    /\ ClientIdle
    /\ ascript \in {"xero_export", "xero_export_clean"}
    /\ afile \in {"absent", "usable", "unusable"}
    /\ areq = NoRequest
    /\ apc = "idle"
    /\ auth_code = ""
    /\ awfile = <<>>
    /\ shutdown_request = FALSE
    /\ is_shut_down = FALSE
    /\ ImportIdle

\* authenticate() up to handle_request(): with a credential file that
\* passes the test call it returns; otherwise the server is constructed
\* (its event unset, its flag False) and waits for one request.
Authenticate ==
    /\ apc = "idle"
    /\ apc' = IF afile = "usable" THEN "authenticated" ELSE "handle_request"
    /\ shutdown_request' = FALSE
    /\ is_shut_down' = FALSE
    /\ UNCHANGED <<ascript, afile, areq, auth_code, awfile>>
    /\ AuthFrame

\* handle_request() receives one request: a GET is dispatched to do_GET in
\* the same thread, any other method is answered 501 by the base handler
\* and handle_request returns.
RequestReceived ==
    /\ apc = "handle_request"
    /\ \E r \in CallbackRequests :
        /\ areq' = r
        /\ IF r.method = "GET"
           THEN /\ apc' = "do_GET"
                /\ awfile' = awfile
           ELSE /\ apc' = "returned"
                /\ awfile' = Append(awfile, "501")
    /\ UNCHANGED <<ascript, afile, auth_code, shutdown_request, is_shut_down>>
    /\ AuthFrame

\* do_GET, the status line and headers
DoGetSendHeaders ==
    /\ apc = "do_GET"
    /\ awfile' = Append(awfile, "200")
    /\ apc' = "do_GET_query"
    /\ UNCHANGED <<ascript, afile, areq, auth_code, shutdown_request,
                   is_shut_down>>
    /\ AuthFrame

\* do_GET, the query: a code is stored on the server and acknowledged
DoGetAnswer ==
    /\ apc = "do_GET_query"
    /\ IF "code" \in areq.query
       THEN /\ \E c \in AuthCodes : auth_code' = c
            /\ awfile' = Append(awfile, "successful")
       ELSE /\ auth_code' = auth_code
            /\ awfile' = Append(awfile, "failed")
    /\ apc' = "do_GET_shutdown"
    /\ UNCHANGED <<ascript, afile, areq, shutdown_request, is_shut_down>>
    /\ AuthFrame

\* do_GET, its last statement self.server.shutdown(), called in the thread
\* that runs handle_request
DoGetShutdown ==
    /\ apc = "do_GET_shutdown"
    /\ LET r == BaseServer_shutdown(is_shut_down)
       IN /\ shutdown_request' = r.shutdown_request
          /\ apc' = IF r.returns THEN "returned" ELSE "shutdown_wait"
    /\ UNCHANGED <<ascript, afile, areq, auth_code, awfile, is_shut_down>>
    /\ AuthFrame

\* authenticate() after handle_request(): the code is exchanged and the
\* credential saved, or the run exits when no code was stored.
AfterHandleRequest ==
    /\ apc = "returned"
    /\ IF auth_code # ""
       THEN \E ok \in BOOLEAN :
               /\ apc' = IF ok THEN "authenticated" ELSE "raised"
               /\ afile' = IF ok THEN "usable" ELSE afile
       ELSE /\ apc' = "exit"
            /\ afile' = afile
    /\ UNCHANGED <<ascript, areq, auth_code, awfile, shutdown_request,
                   is_shut_down>>
    /\ AuthFrame

NextAuth ==
    \/ Authenticate
    \/ RequestReceived
    \/ DoGetSendHeaders
    \/ DoGetAnswer
    \/ DoGetShutdown
    \/ AfterHandleRequest

SpecAuth == InitAuth /\ [][NextAuth]_vars
SpecAuthFair == SpecAuth /\ WF_vars(NextAuth)

\* ------------------------------------------------------ import of new_int
\* The calls new_int makes at module level, in file order, lines 1171 and
\* 1216-1219
ModuleCalls == <<"export_all_to_csv", "get_contacts",
                 "get_bank_transactions", "get_accounts", "get_employees">>

\* The functions new_int has defined when those calls run (its def
\* statements, lines 31-1135)
DefinedFunctions ==
    {all_functions[i] : i \in 1..Len(all_functions)}
    \cup {"get_headers", "make_api_call", "get_tenant_id", "debug_token",
          "normalize_data", "make_paginated_api_call",
          "make_api_call_with_date", "get_credit_transactions",
          "get_invoice_summaries", "get_profit_and_loss",
          "get_balance_sheet", "get_cash_flow", "save_to_csv",
          "export_invoice_summaries", "export_all_to_csv",
          "get_all_accounting_data", "get_all_payroll_data",
          "get_all_other_data", "main"}

\* What one module-level call does: the requests it issues and the files
\* it writes. Without a credential get_headers raises before any request
\* and the callee catches it; with one, export_all_to_csv issues the
\* requests of its entries and saves the tables it got, and a get_*
\* function issues the requests of its pages.
CallEffects(name, cred) ==
    IF ~ cred THEN {[requests |-> 0, files |-> 0]}
    ELSE IF name = "export_all_to_csv"
    THEN {[requests |-> r, files |-> f] :
            r \in 1..MaxImportRequests, f \in 0..MaxImportFiles}
    ELSE {[requests |-> r, files |-> 0] : r \in 1..MaxPages}

InitImport ==
    /\ now = 0
    /\ TokenIdle
    /\ PageEntry
    /\ RefreshIdle
    /\ NormIdle
    /\ StoreIdle
    /\ ExportIdle
    /\ DateIdle
    /\ LoopIdle
    /\ UpsertIdle
    /\ PrepareIdle
    /\ FetchIdle
    /\ XMainIdle
    /\ DayIdle
    /\ ClientIdle
    /\ AuthIdle
    /\ importer \in {"export_financials", "export_financials_only"}
    /\ icred \in BOOLEAN
    /\ ipc = "idle"
    /\ ip = 1
    /\ irequests = 0
    /\ ifiles = 0
    /\ ierror = ""

\* The script starts: its line 7 imports new_int, whose imports, constants
\* and def statements run (new_int.py lines 1-1164).
ImportBegin ==
    /\ ImportFrame
    /\ ipc = "idle"
    /\ ipc' = "importing"
    /\ UNCHANGED <<importer, icred, ip, irequests, ifiles, ierror>>

\* One module-level call of new_int: a name that no def bound raises
\* NameError and ends the import; otherwise the function runs. After the
\* last call the import is complete.
ImportCall ==
    /\ ImportFrame
    /\ ipc = "importing"
    /\ ip <= Len(ModuleCalls)
    /\ LET name == ModuleCalls[ip] IN
       IF name \notin DefinedFunctions
       THEN /\ ierror' = "NameError"
            /\ ipc' = "raised"
            /\ UNCHANGED <<ip, irequests, ifiles>>
       ELSE \E e \in CallEffects(name, icred) :
               /\ irequests' = irequests + e.requests
               /\ ifiles' = ifiles + e.files
               /\ ip' = ip + 1
               /\ ipc' = IF ip = Len(ModuleCalls) THEN "imported"
                         ELSE "importing"
               /\ ierror' = ierror
    /\ UNCHANGED <<importer, icred>>

\* The importing script after its import statement: an exception of the
\* import ends it with a traceback before any of its functions is defined;
\* otherwise export_financial_statements (export_pnl) runs up to its first
\* get_profit_and_loss call.
ImporterContinues ==
    /\ ImportFrame
    /\ ipc \in {"raised", "imported"}
    /\ ipc' = IF ipc = "raised" THEN "traceback" ELSE "get_profit_and_loss"
    /\ UNCHANGED <<importer, icred, ip, irequests, ifiles, ierror>>

NextImport ==
    \/ ImportBegin
    \/ ImportCall
    \/ ImporterContinues

SpecImport == InitImport /\ [][NextImport]_vars

\* ------------------------------------------------------------------ actions
Init ==
    /\ now = 0
    /\ file \in {Absent, Corrupt}
    /\ issued = 0
    /\ lastExchange = NoPair
    /\ refreshFailed = FALSE
    /\ ret = NoCall
    /\ pc = "idle"
    /\ mainToken = EmptyDict
    /\ idx = 0
    /\ requests = 0
    /\ tables = 0
    /\ credFailed = FALSE
    /\ PageEntry
    /\ RefreshIdle
    /\ NormIdle
    /\ StoreIdle
    /\ ExportIdle
    /\ DateIdle
    /\ LoopIdle
    /\ UpsertIdle
    /\ PrepareIdle
    /\ FetchIdle
    /\ XMainIdle
    /\ DayIdle
    /\ ClientIdle
    /\ AuthIdle
    /\ ImportIdle

\* Time passes.
Tick ==
    /\ TokenFrame
    /\ now + Step <= MaxTime
    /\ now' = now + Step
    /\ UNCHANGED <<file, issued, lastExchange, refreshFailed, ret, runVars>>

\* get_token.py /callback: the authorization code is exchanged and the
\* answer stored with store_token.
callback ==
    /\ TokenFrame
    /\ pc = "idle"
    /\ issued < MaxIssued
    /\ \E body \in TokenBodies(issued + 1) :
          /\ file' = store_token(body, now)
          /\ lastExchange' = Pair(body)
    /\ issued' = issued + 1
    /\ refreshFailed' = FALSE
    /\ UNCHANGED <<now, ret, runVars>>

\* One call of get_valid_token, the token endpoint answering resp if asked:
\* the file, the endpoint and the record of the call afterwards.
CallGetValidToken(r) ==
    /\ r.exchanged => issued < MaxIssued
    /\ file' = r.file
    /\ issued' = IF r.exchanged THEN issued + 1 ELSE issued
    /\ lastExchange' = IF r.exchanged THEN Pair(r.tok) ELSE lastExchange
    /\ refreshFailed' = (refreshFailed \/ (r.asked /\ ~r.exchanged))
    /\ ret' = [kind |-> r.kind, tok |-> r.tok, asked |-> r.asked,
               refreshed |-> r.exchanged, afterFailure |-> refreshFailed,
               at |-> now, fileWas |-> file.state]
    /\ UNCHANGED now

\* A caller (get_token.py /check_token, get_token.main) calls
\* get_xero_oauth2_token, which is get_valid_token.
get_xero_oauth2_token ==
    /\ TokenFrame
    /\ pc = "idle"
    /\ \E resp \in Responses(issued + 1) :
          CallGetValidToken(get_valid_token(file, now, resp))
    /\ UNCHANGED runVars

\* ------------------------------------------------------------ pipeline.main
\* main, lines 82-86: a run starts; it returns when Supabase does not
\* initialize.
MainStart ==
    /\ TokenFrame
    /\ pc = "idle"
    /\ \E ok \in BOOLEAN : pc' = IF ok THEN "main_token" ELSE "main_done"
    /\ mainToken' = EmptyDict
    /\ idx' = 0
    /\ requests' = 0
    /\ tables' = 0
    /\ credFailed' = FALSE
    /\ UNCHANGED tokVars

\* main, lines 88-92: token = get_xero_oauth2_token(). A corrupt file
\* raises out of main; None makes it return.
MainGetToken ==
    /\ TokenFrame
    /\ pc = "main_token"
    /\ \E resp \in Responses(issued + 1) :
          LET r == get_valid_token(file, now, resp) IN
          /\ CallGetValidToken(r)
          /\ IF r.kind = "token"
             THEN /\ mainToken' = r.tok
                  /\ pc' = "main_refresh"
                  /\ UNCHANGED credFailed
             ELSE /\ credFailed' = TRUE
                  /\ pc' = "main_done"
                  /\ UNCHANGED mainToken
    /\ UNCHANGED <<idx, requests, tables>>

\* main, lines 94-103: token = refresh_xero_oauth2_token(...), always, and
\* with no store_token after it; a failure makes main return.
MainRefresh ==
    /\ TokenFrame
    /\ pc = "main_refresh"
    /\ \E resp \in Responses(issued + 1) :
          IF resp.ok
          THEN /\ issued < MaxIssued
               /\ mainToken' = refresh_xero_oauth2_token(mainToken, resp.body, now)
               /\ issued' = issued + 1
               /\ lastExchange' = Pair(mainToken')
               /\ pc' = "main_tenant"
               /\ UNCHANGED <<refreshFailed, credFailed>>
          ELSE /\ refreshFailed' = TRUE
               /\ credFailed' = TRUE
               /\ pc' = "main_done"
               /\ UNCHANGED <<mainToken, issued, lastExchange>>
    /\ UNCHANGED <<now, file, ret, idx, requests, tables>>

\* main, lines 116-120 with get_xero_tenant_id: get_xero_oauth2_token again,
\* then the connections request under main's token; any exception makes
\* main return.
MainTenant ==
    /\ TokenFrame
    /\ pc = "main_tenant"
    /\ \E resp \in Responses(issued + 1), connected \in BOOLEAN :
          LET r == get_valid_token(file, now, resp) IN
          /\ CallGetValidToken(r)
          /\ IF r.kind # "token"
             THEN /\ credFailed' = TRUE
                  /\ pc' = "main_done"
             ELSE /\ UNCHANGED credFailed
                  /\ pc' = IF connected THEN "main_loop" ELSE "main_done"
    /\ UNCHANGED <<mainToken, idx, requests, tables>>

\* What one entry of a resource loop brings: the entry is skipped before any
\* request (payslip), the fetch returns no records, it returns records that
\* are written, or a later step of the entry raises after the write.
Outcomes == {"skip", "empty", "rows", "error"}
Requested(o) == IF o = "skip" THEN 0 ELSE 1
Written(o) == IF o \in {"rows", "error"} THEN 1 ELSE 0

\* main, lines 147-190: one entry of the endpoints loop; an exception is
\* caught and the loop continues.
MainEndpoint ==
    /\ TokenFrame
    /\ pc = "main_loop"
    /\ idx < NumEndpoints
    /\ \E o \in Outcomes :
          /\ requests' = requests + Requested(o)
          /\ tables' = tables + Written(o)
    /\ idx' = idx + 1
    /\ UNCHANGED <<tokVars, pc, mainToken, credFailed>>

MainLoopEnd ==
    /\ TokenFrame
    /\ pc = "main_loop"
    /\ idx = NumEndpoints
    /\ pc' = "main_done"
    /\ UNCHANGED <<tokVars, mainToken, idx, requests, tables, credFailed>>

\* The process of a finished run is gone, and its variables with it.
RunExit ==
    /\ TokenFrame
    /\ pc \in {"main_done", "export_done"}
    /\ pc' = "idle"
    /\ mainToken' = EmptyDict
    /\ idx' = 0
    /\ requests' = 0
    /\ tables' = 0
    /\ credFailed' = FALSE
    /\ UNCHANGED tokVars

\* ------------------------------------------------- new_int.export_all_to_csv
ExportStart ==
    /\ TokenFrame
    /\ pc = "idle"
    /\ pc' = "export_loop"
    /\ mainToken' = EmptyDict
    /\ idx' = 0
    /\ requests' = 0
    /\ tables' = 0
    /\ credFailed' = FALSE
    /\ UNCHANGED tokVars

\* export_all_to_csv, lines 1009-1064: one (func, base_filename) entry. The
\* get_* function asks get_headers for the request's headers; when that
\* raises, the exception is caught (in make_paginated_api_call or in the
\* loop's own except) and the loop goes on to the next entry.
ExportFunction ==
    /\ TokenFrame
    /\ pc = "export_loop"
    /\ idx < NumFunctions
    /\ \E resp \in Responses(issued + 1), o \in Outcomes \ {"skip"} :
          LET r == get_valid_token(file, now, resp) IN
          /\ CallGetValidToken(r)
          /\ IF get_headers_raises(r)
             THEN /\ credFailed' = TRUE
                  /\ UNCHANGED <<requests, tables>>
             ELSE /\ requests' = requests + Requested(o)
                  /\ tables' = tables + Written(o)
                  /\ UNCHANGED credFailed
    /\ idx' = idx + 1
    /\ UNCHANGED <<pc, mainToken>>

ExportLoopEnd ==
    /\ TokenFrame
    /\ pc = "export_loop"
    /\ idx = NumFunctions
    /\ pc' = "export_done"
    /\ UNCHANGED <<tokVars, mainToken, idx, requests, tables, credFailed>>

Next ==
    \/ Tick
    \/ callback
    \/ get_xero_oauth2_token
    \/ MainStart
    \/ MainGetToken
    \/ MainRefresh
    \/ MainTenant
    \/ MainEndpoint
    \/ MainLoopEnd
    \/ ExportStart
    \/ ExportFunction
    \/ ExportLoopEnd
    \/ RunExit

Spec == Init /\ [][Next]_vars

\* ------------------------------------------------------------------ claims

\* C1: whenever get_valid_token returns a credential, now < stored_at +
\* expires_in - 300 at the moment of return, for a credential returned as
\* loaded and for one just refreshed; when no credential exists it returns
\* none and asks the token endpoint for nothing.
C1_ReturnedValidForBuffer ==
    /\ ret.kind = "token" =>
          /\ Has(ret.tok, "stored_at")
          /\ Has(ret.tok, "expires_in")
          /\ ret.at < ret.tok["stored_at"] + ret.tok["expires_in"] - TOKEN_REFRESH_BUFFER
    /\ (ret.kind # "nocall" /\ ret.fileWas = "absent") =>
          (ret.kind = "none" /\ ~ret.asked)

\* C2: the credential file holds the access_token and refresh_token of the
\* most recent successful token exchange, after any get_valid_token call and
\* at the end of any run of pipeline.main.
C2_FileHoldsLastExchange ==
    (lastExchange # NoPair /\ pc \in {"idle", "main_done"}) =>
        (file.state = "json" /\ Pair(file.tok) = lastExchange)

C5_HaltsOnCredentialFailure ==
    [][credFailed => (requests' <= requests /\ tables' <= tables)]_vars

\* C10: for a credential with expires_in > 300, is_token_expired is false at
\* stored_at and true from stored_at + expires_in - 300 on, and it reads only
\* the time, stored_at and expires_in.
C10_Times(tok) ==
    LET edge == tok["stored_at"] + tok["expires_in"] - TOKEN_REFRESH_BUFFER
    IN  {tok["stored_at"], edge - 1, edge, edge + 1, now, MaxTime}

C10_ExpiryThreshold ==
    (file.state = "json" /\ Has(file.tok, "stored_at") /\ Has(file.tok, "expires_in")
        /\ file.tok["expires_in"] > TOKEN_REFRESH_BUFFER) =>
    LET tok == file.tok
        edge == tok["stored_at"] + tok["expires_in"] - TOKEN_REFRESH_BUFFER
        bare == [stored_at |-> tok["stored_at"], expires_in |-> tok["expires_in"]]
    IN  /\ ~is_token_expired(tok, tok["stored_at"])
        /\ \A t \in C10_Times(tok) :
              /\ t >= edge => is_token_expired(tok, t)
              /\ is_token_expired(tok, t) = is_token_expired(bare, t)

C10_Witness ==
    /\ file.state = "json" /\ Has(file.tok, "stored_at") /\ Has(file.tok, "expires_in")
    /\ file.tok["expires_in"] > TOKEN_REFRESH_BUFFER
    /\ now = file.tok["stored_at"] + file.tok["expires_in"] - TOKEN_REFRESH_BUFFER
    /\ is_token_expired(file.tok, now)
    /\ ~is_token_expired(file.tok, file.tok["stored_at"])

\* The concatenation of the answers' item lists, in the order served.
RECURSIVE ConcatServed(_)
ConcatServed(sv) ==
    IF sv = <<>> THEN <<>>
    ELSE ConcatServed(SubSeq(sv, 1, Len(sv) - 1))
            \o Items(sv[Len(sv)].try, sv[Len(sv)].n)

\* C4: on a transport error other than a rate limit (an HTTP error status,
\* or a connection failure, timeout or undecodable body, which carry no
\* response) the loop ends and make_paginated_api_call returns the items of
\* the earlier pages; it never raises.
C4_TransportErrorReturnsPartial ==
    /\ ppc # "raised"
    /\ \A i \in 1..Len(tries) :
          tries[i].answer \in {"http_error", "no_response"} =>
             /\ i = Len(tries)
             /\ ppc = "returned"
             /\ all_items = ConcatServed(served)

\* C7: pages 1, 2, 3, ... are requested in order, the loop stops after the
\* first page of zero or fewer than page_size items, and all_items is the
\* concatenation of the fetched pages in server order, each once; a full
\* page 1 and a short page 2 take exactly two requests.
C7_PagesInOrderOnce ==
    /\ all_items = ConcatServed(served)
    /\ \A j \in 1..Len(served) : served[j].page = j
    /\ \A i \in 1..Len(tries) :
          tries[i].page = 1 + Cardinality({j \in 1..Len(served) : served[j].try < i})
    /\ \A j \in 1..Len(served) :
          IF served[j].n < page_size
          THEN j = Len(served) /\ served[j].try = Len(tries) /\ ppc = "returned"
          ELSE served[j].try = Len(tries) => (ppc = "loop" /\ page = j + 1)
    /\ (Len(served) >= 2 /\ served[1].try = 1 /\ served[2].try = 2
           /\ served[1].n = page_size /\ served[2].n < page_size) =>
          /\ Len(tries) = 2
          /\ ppc = "returned"
          /\ all_items = Items(1, page_size) \o Items(2, served[2].n)

C7_Witness ==
    /\ ppc = "returned"
    /\ Len(tries) = 2 /\ Len(served) = 2
    /\ served[1].n = page_size
    /\ served[2].n = page_size - 1
    /\ Len(all_items) = 2 * page_size - 1
    /\ all_items[page_size + 1] = <<2, 1>>

\* C8: a 429 answer makes the loop wait and request the same page again,
\* with page and all_items unchanged, however often it is answered; every
\* iteration prints its line.
C8_Fetching == {i \in 1..Len(log) : log[i][1] = "Fetching"}

C8_Retried ==
    /\ \A i \in 1..(Len(tries) - 1) :
          tries[i].answer = "429" => tries[i + 1].page = tries[i].page
    /\ Cardinality(C8_Fetching) = Len(tries)
    /\ (tries # <<>> /\ tries[Len(tries)].answer = "429") =>
          (ppc = "loop" /\ page = tries[Len(tries)].page)

C8_RetryStep ==
    (Len(tries') = Len(tries) + 1 /\ tries'[Len(tries')].answer = "429") =>
        /\ page' = page
        /\ all_items' = all_items
        /\ served' = served
        /\ ppc' = "loop"
        /\ lastSleep' >= 1000
        /\ log'[Len(log')] = <<"RateLimited", page>>

C9_Kept(out) ==
    out.kind = "token" =>
        /\ Has(out.tok, "access_token") /\ Has(out.tok, "refresh_token")
        /\ out.tok["access_token"] = rResp.body["access_token"]
        /\ out.tok["refresh_token"] =
              IF Has(rResp.body, "refresh_token") THEN rResp.body["refresh_token"]
              ELSE rOld["refresh_token"]

C9_RefreshTokenPreserved ==
    C9_Kept(outTM) /\ C9_Kept(outXE) /\ C9_Kept(outXEC)

C9_Witness ==
    /\ rResp.ok /\ ~Has(rResp.body, "refresh_token")
    /\ Has(rOld, "refresh_token") /\ rOld["refresh_token"] = 2
    /\ outTM.kind = "token" /\ outXE.kind = "token" /\ outXEC.kind = "token"
    /\ outTM.tok["refresh_token"] = 2
    /\ outXE.tok["refresh_token"] = 2
    /\ outXEC.tok["refresh_token"] = 2
    /\ outTM.tok["access_token"] = MaxIssued

RECURSIVE Mentions(_, _)
\* The value holds one of the texts somewhere
Mentions(v, words) ==
    \/ v.t = "str" /\ v.s \in words
    \/ \E i \in 1..Len(v.kids) : Mentions(v.kids[i], words)

\* The table without its LastUpdated column
Unstamped(df) ==
    IF HasCol(df, "LastUpdated") THEN DropColumn(df, "LastUpdated") ELSE df

C11_CorruptSurfacesAbsentDoesNot ==
    loaded.by \in {"token_manager", "xero_client"} =>
        /\ loaded.fileWas = "absent" => loaded.kind = "none"
        /\ loaded.fileWas \in {"corrupt", "empty", "partial"} =>
              loaded.kind = "raise"

\* C12 (as stated): a process terminated at any point of a run, during a
\* refresh or while the credential file is being written, leaves a file that
\* holds the complete previous credential or the complete new one, never a
\* partial or empty record.
C12_KillLeavesCompleteFile ==
    spc = "killed" => file.state \notin {"empty", "partial"}

\* C13 (as stated): every write of the credential file is a write of the
\* whole record based on the file's latest contents: after any sequence of
\* get_token, refresh_token, get_headers and get_tenant_id steps of
\* xero_export and of get_headers steps of xero_export_clean, the file holds
\* the access/refresh-token pair of the most recent successful token
\* exchange, never an older pair written back over a newer one.
C13_FileHoldsLatestPair ==
    (xpc = "idle" /\ file.state = "json" /\ lastExchange # NoPair) =>
        file.tok["access_token"] = lastExchange.access_token

\* The items normalize_data processes in the document, and the column their
\* LineItems are linked by
C14_Records ==
    LET items == find_items(document, key_name)
    IN IF items.t = "list" THEN items.kids ELSE <<items>>
C14_IdField ==
    IF \E i \in 1..Len(C14_Records) : HasKey(C14_Records[i], "InvoiceID")
    THEN "InvoiceID" ELSE "invoicesID"
C14_Lines(item) ==
    IF HasKey(item, "LineItems") THEN GetItem(item, "LineItems").kids ELSE <<>>

\* The first call has returned for a document whose items all carry their
\* id, some of them with a LineItems list that is not empty
C14_Expandable ==
    /\ npc # "start"
    /\ Truthy(document)
    /\ Len(C14_Records) > 0
    /\ \A i \in 1..Len(C14_Records) :
          /\ HasKey(C14_Records[i], C14_IdField)
          /\ GetItem(C14_Records[i], C14_IdField).t = "num"
    /\ \E i \in 1..Len(C14_Records) : Len(C14_Lines(C14_Records[i])) > 0

\* C14: normalize_data on a document whose root items carry an expandable
\* nested list field (LineItems under InvoiceID) yields a root table with one
\* row per item and without the nested column, and a child table named
\* {rootKey}_{field} with one row per nested element, in order, each row
\* carrying the id of the item it came from.
C14_ExpandsIntoChildTable ==
    C14_Expandable =>
        /\ out1.names = <<key_name, key_name \o "_LineItems">>
        /\ Len(out1.tables[1].rows) = Len(C14_Records)
        /\ ~ HasCol(out1.tables[1], "LineItems")
        /\ Column(out1.tables[2], C14_IdField) =
              Concat([i \in 1..Len(C14_Records) |->
                  [k \in 1..Len(C14_Lines(C14_Records[i])) |->
                      GetItem(C14_Records[i], C14_IdField)]])
        /\ Column(out1.tables[2], "Qty") =
              Concat([i \in 1..Len(C14_Records) |->
                  [k \in 1..Len(C14_Lines(C14_Records[i])) |->
                      GetItem(C14_Lines(C14_Records[i])[k], "Qty")]])

C14_Witness ==
    /\ C14_Expandable
    /\ Len(C14_Records) = 2
    /\ Len(C14_Lines(C14_Records[1])) = 2
    /\ Len(C14_Lines(C14_Records[2])) = 1
    /\ Len(out1.tables[2].rows) = 3

\* The parent-id column of the result: the rule's, or the fallback
C15_ParentField ==
    IF HasCol(out1.tables[1], "InvoiceID") THEN "InvoiceID" ELSE "invoicesID"

\* C15 (as stated): in every result of normalize_data, each row of each
\* child table carries a parent-id value that is not missing and matches
\* exactly one row of the root table.
C15_ChildRowHasOneParent ==
    (npc # "start" /\ Len(out1.names) >= 2) =>
        \A k \in 2..Len(out1.tables) :
            \A r \in 1..Len(out1.tables[k].rows) :
                LET pid == Column(out1.tables[k], C15_ParentField)[r]
                    ids == Column(out1.tables[1], C15_ParentField)
                IN /\ ~ isna(pid)
                   /\ Cardinality({i \in 1..Len(ids) : ids[i] = pid}) = 1

\* The item carries a parent id that is not missing
C15_HasId(item) ==
    /\ HasKey(item, C15_ParentField)
    /\ GetItem(item, C15_ParentField).t \notin {"nan", "null"}

\* The number of nested elements of the items from position i on that carry
\* a parent id
RECURSIVE C15_Linked(_)
C15_Linked(i) ==
    IF i > Len(C14_Records) THEN 0
    ELSE (IF C15_HasId(C14_Records[i])
          THEN Len(C14_Lines(C14_Records[i])) ELSE 0) + C15_Linked(i + 1)

\* C15 (amended): in every result of normalize_data, each row of each child
\* table carries a parent-id value that is not missing and matches at least
\* one row of the root table, exactly one when no two rows of the root table
\* carry the same id; the nested elements of an item whose parent id is
\* missing are dropped, so that the child table has one row for each nested
\* element of the items that carry an id.
C15_ChildRowHasParent ==
    (npc # "start" /\ Len(out1.names) >= 2) =>
        /\ \A k \in 2..Len(out1.tables) :
            \A r \in 1..Len(out1.tables[k].rows) :
                LET pid == Column(out1.tables[k], C15_ParentField)[r]
                    ids == Column(out1.tables[1], C15_ParentField)
                    matches == {i \in 1..Len(ids) : ids[i] = pid}
                IN /\ pid.t \notin {"nan", "null"}
                   /\ Cardinality(matches) >= 1
                   /\ (\A i, j \in 1..Len(ids) :
                          (i # j /\ ids[i].t = "num") => ids[i] # ids[j])
                      => Cardinality(matches) = 1
        /\ Len(out1.tables[2].rows) = C15_Linked(1)

C15_Witness ==
    /\ npc # "start"
    /\ Len(out1.names) >= 2
    /\ Len(out1.tables[2].rows) >= 2
    /\ \E i \in 1..Len(C14_Records) :
          /\ ~ C15_HasId(C14_Records[i])
          /\ Len(C14_Lines(C14_Records[i])) > 0

\* The cells of the column handed to _process_dates_in_df and returned by it
C16_In == Column(frame, "Date")
C16_Out == Column(dated, "Date")
C16_Parses(c) == to_datetime(c, clock) # ""
C16_NonMissing == {i \in 1..Len(C16_In) : ~ isna(C16_In[i])}
C16_Parsed == {i \in 1..Len(C16_In) : C16_Parses(C16_In[i])}

\* C16 (as stated): _process_dates_in_df rewrites a string column exactly
\* when more than half of its non-missing values parse as a date; in a
\* rewritten column the parseable values become their YYYY-MM-DD form and
\* the unparseable ones missing, and a column at or below the threshold is
\* left unchanged.
C16_RewrittenOverHalfOfNonMissing ==
    (dpc = "done" /\ C16_NonMissing # {}) =>
        IF 2 * Cardinality(C16_Parsed) > Cardinality(C16_NonMissing)
        THEN \A i \in 1..Len(C16_In) :
                C16_Out[i] = IF C16_Parses(C16_In[i])
                             THEN Str(to_datetime(C16_In[i], clock))
                             ELSE NaN
        ELSE C16_Out = C16_In

\* C17 (as stated): after normalize_data returns, no cell of any returned
\* table, root table or child table, holds a composite value (object or
\* list).
C17_NoCompositeCell ==
    npc # "start" =>
        \A k \in 1..Len(out1.tables) :
            \A r \in 1..Len(out1.tables[k].rows) :
                \A j \in 1..Len(out1.tables[k].cols) :
                    ~ IsComposite(out1.tables[k].rows[r][j])

\* The first call returned tables for a document some item of which carries
\* a LineItems field
C18_HasLineItems ==
    /\ npc # "start"
    /\ Len(out1.names) > 0
    /\ \E i \in 1..Len(C14_Records) : HasKey(C14_Records[i], "LineItems")

\* The expansion of LineItems was skipped: no child table, and the column
\* is in the root table with the JSON text of each item's list
C18_Skipped ==
    /\ out1.names = <<key_name>>
    /\ HasCol(out1.tables[1], "LineItems")
    /\ \A i \in 1..Len(C14_Records) :
          Column(out1.tables[1], "LineItems")[i] =
              IF HasKey(C14_Records[i], "LineItems")
              THEN Str(json_dumps(GetItem(C14_Records[i], "LineItems")))
              ELSE NaN

\* C18 (as stated): when a nested list field named in the expansion rules is
\* present but the parent-id column of its rule (InvoiceID) is missing from
\* the root table, the expansion is skipped: no child table is produced and
\* the field stays in the root table, serialized as JSON text.
C18_SkippedWithoutRuleId ==
    (C18_HasLineItems /\ ~ HasCol(out1.tables[1], "InvoiceID")) => C18_Skipped

\* C18 (amended): when the field is present and neither the parent-id column
\* of its rule nor the fallback column {key_name.lower()}ID is in the root
\* table, the expansion is skipped: no child table, the field stays in the
\* root table as JSON text; when only the rule's column is missing and the
\* fallback column is there, the field is expanded and linked by the
\* fallback column.
C18_SkippedWithoutAnyId ==
    C18_HasLineItems =>
        /\ (/\ ~ HasCol(out1.tables[1], "InvoiceID")
            /\ ~ HasCol(out1.tables[1], "invoicesID")) => C18_Skipped
        /\ (/\ ~ HasCol(out1.tables[1], "InvoiceID")
            /\ HasCol(out1.tables[1], "invoicesID")) =>
              /\ ~ HasCol(out1.tables[1], "LineItems")
              /\ C15_Linked(1) > 0 =>
                    /\ out1.names = <<key_name, key_name \o "_LineItems">>
                    /\ HasCol(out1.tables[2], "invoicesID")

C18_Witness ==
    /\ C18_HasLineItems
    /\ ~ HasCol(out1.tables[1], "InvoiceID")
    /\ ~ HasCol(out1.tables[1], "invoicesID")
    /\ HasCol(out1.tables[1], "Number")
    /\ Len(C14_Records) = 2
    /\ \E i \in 1..2 : Len(C14_Lines(C14_Records[i])) = 2
    /\ C18_Skipped

\* The names of the first n configured endpoints, and those of them that
\* are not payslip
C19_Configured(n) == [i \in 1..n |-> endpoints[i].name]
C19_Fetched(n) == SelectSeq(C19_Configured(n), LAMBDA x : x # "payslip")

C20_Given ==
    /\ lpc \in {"main", "main_done"}
    /\ last.kind \notin {"none", "skipped", "empty"}
\* The table was skipped: nothing created, nothing upserted, and the loop
\* went on
C20_TableSkipped ==
    /\ ~ last.created
    /\ last.upserted = 0
    /\ last.reported
    /\ lpc = "main" \/ li = Len(endpoints)

\* C20 as stated: when the configured primary-key column is not among the
\* columns of the table, the table is skipped whole and the run continues.
C20_SkippedWhenNoColumnNamedPk ==
    (C20_Given /\ ~ \E j \in 1..Len(last.cols) : last.cols[j] = last.pk)
        => C20_TableSkipped

\* C20: when no column of the table equals the configured primary key, not
\* even up to letter case, the table is skipped whole (no table is created
\* and no row is upserted, however many rows it has), the step the run takes
\* from there goes through the next entry of the loop, and the run reaches
\* the end of the loop.
C20_SkippedWhenNoColumnMatchesPk ==
    /\ []((C20_Given /\ ~ \E j \in 1..Len(last.cols) :
                            lower(last.cols[j]) = lower(last.pk))
            => C20_TableSkipped)
    /\ [][(lpc = "main" /\ last.kind = "no_primary_key"
                /\ li < Len(endpoints))
             => (lpc' = "main" /\ li' = li + 1)]_vars
    /\ (lpc = "main" /\ last.kind = "no_primary_key") ~> lpc = "main_done"

\* C20 witness: a table of two rows whose only trace of the primary key is
\* inside an expanded dictionary column was refused, and the loop is at its
\* next entry.
C20_Witness ==
    /\ lpc = "main"
    /\ li < Len(endpoints)
    /\ last.kind = "no_primary_key"
    /\ last.rows = 2
    /\ \E j \in 1..Len(last.cols) : last.cols[j] = "contact." \o last.pk
    /\ C20_TableSkipped

\* The primary key of the i-th fetched record, and the row the store holds
\* for it when it was upserted
C21_Key(i) == fetched[i][1].v
C21_Row(i) == <<fetched[i][1].v, fetched[i][2].v>>

\* C21: after pipeline.main has sent a table whose batch holds two rows with
\* the same primary-key value, the destination table holds exactly one row
\* for that key, with the values of the later of the two rows.
C21_LaterRowOfDuplicateKept ==
    upc \in {"stored", "failed"} =>
        \A a, b \in 1..Len(fetched) :
            (/\ a < b
             /\ C21_Key(a) = C21_Key(b)
             /\ \A c \in (b + 1)..Len(fetched) : C21_Key(c) # C21_Key(b))
            => {r \in dest : r[1] = C21_Key(b)} = {C21_Row(b)}

\* What C22 says a value becomes
C22_Expected(v) ==
    IF isna(v) THEN Null
    ELSE IF IsComposite(v) THEN Str(json_dumps(v))
    ELSE v

\* C22: prepare_data_for_supabase never fails and returns as many records as
\* it was given, each with the keys it had, a missing value (None or NaN)
\* become null, a dict or a list of any length become its JSON text, any
\* other value unchanged.
C22_EveryFieldMappedNeverFails ==
    prpc = "done" =>
        /\ ~ prepared.raised
        /\ Len(prepared.records) = Len(given)
        /\ \A i \in 1..Len(given) :
              /\ Len(prepared.records[i]) = Len(given[i])
              /\ \A j \in 1..Len(given[i]) :
                    /\ prepared.records[i][j].k = given[i][j].k
                    /\ prepared.records[i][j].v = C22_Expected(given[i][j].v)

\* C23: when fetch_all_records in paginated mode has returned after the
\* request of a page n > 1 raised, whatever the exception, it has returned
\* the records accumulated from pages 1..n-1.
C23_FailureKeepsEarlierPages ==
    (fpc = "returned" /\ ffail.page > 1) => fret = frecords

\* C24: when xero_export.main is over, with or without failures, the export
\* of every resource (contacts, invoices, bank transactions and the six
\* reports) has been called, and every resource that did not fail has its
\* file.
C24_FailureDoesNotStopTheOthers ==
    xmpc \in {"done", "failed"} =>
        /\ xdone = direct_exports \o reports
        /\ \A i \in 1..Len(xdone) :
              xdone[i] \notin xfailed
                  => \E k \in 1..Len(xfiles) : xfiles[k] = xdone[i]

\* C25: in the daily loop no date is handled twice (a day whose fetch has
\* failed max_retries times is left behind), every fetch takes at most
\* max_retries attempts, and day_count never exceeds total_days.
C25_EachDayHandledOnce ==
    /\ day_count <= total_days
    /\ \A i, j \in 1..Len(handled) :
          handled[i].date = handled[j].date => i = j
    /\ \A i \in 1..Len(handled) : handled[i].attempts <= max_retries

\* C26: whenever ensure_valid_token has just returned True, the client's
\* in-memory token satisfies is_token_valid (its expires_at is later than
\* now + 300 s), and it is the token the API clients were initialised with.
C26_TrueMeansValidToken ==
    cret = "true" =>
        /\ XeroClient_is_token_valid(ctoken, cnow)
        /\ capi = ctoken.access

\* C27: once the handler has answered a callback request that carried an
\* authorization code, the thread of authenticate() gets past
\* server.shutdown() and goes on to the exchange of the code: it ends
\* authenticated or with the error of the exchange, never waiting in
\* shutdown().
C27_CallbackHandledThenExchange ==
    (apc = "do_GET_shutdown" /\ auth_code # "")
        ~> (apc \in {"authenticated", "raised"})

\* The credential file holds a tenant id
C28_TenantStored == file.state = "json" /\ Has(file.tok, "tenant_id")

\* C28: once the credential file of xero_export holds a tenant id, a call
\* of get_headers that returns sends that tenant id in Xero-tenant-id, also
\* when its get_token refreshes the credential, and leaves the tenant id in
\* the file.
C28_HeadersCarryStoredTenant ==
    (xpc = "idle" /\ C28_TenantStored) =>
        \A resp \in ExportResponses(issued + 1) :
            LET h == xero_export_get_headers(file, now, resp)
                r == xero_export_get_token(file, now, resp)
            IN h.kind = "headers" =>
                /\ h.tenant = file.tok["tenant_id"]
                /\ Get(r.file.tok, "tenant_id", 0) = file.tok["tenant_id"]

\* C29: whenever get_xero_oauth2_token returns a credential, /check_token
\* answers status 'valid' with expires_in_seconds > 0, also for a
\* credential that the callback stored and no refresh has replaced.
C29_ReturnedCredentialReportedValid ==
    (pc = "idle" /\ file.state = "json") =>
        \A resp \in Responses(issued + 1) :
            LET r == get_valid_token(file, now, resp)
                answer == check_token(r, now)
            IN r.kind = "token" =>
                /\ answer.status = "valid"
                /\ answer.expires_in_seconds > 0

\* C30: when the import of new_int has ended, it has issued no API request,
\* written no file and raised no error, and the importing script does not
\* end before its first get_profit_and_loss call.
C30_ImportOnlyDefines ==
    /\ ipc \in {"raised", "imported"} =>
          /\ irequests = 0
          /\ ifiles = 0
          /\ ierror = ""
    /\ ipc # "traceback"

====
